---- MODULE Spec2Model ----
(***************************************************************************)
(* Model of the QR decoding core of src/src/seedsigner/models/decode_qr.py *)
(* (class DecodeQR and its sub-decoders).                                  *)
(*                                                                         *)
(* A text (a Python str) is a sequence of one-character strings, so that   *)
(* the regular expressions, splits and codecs of the source are computed   *)
(* character by character.  An optional value is <<>> (Python None) or     *)
(* <<v>>.                                                                  *)
(***************************************************************************)
EXTENDS Integers, Sequences, FiniteSets, TLC

None == <<>>
\* LET x == v IN F(x)
Let(v, F(_)) == F(v)
Some(v) == <<v>>

\* ------------------------------------------------------------------------
\* Characters
\* ------------------------------------------------------------------------
DigitChars == <<"0","1","2","3","4","5","6","7","8","9">>
UpperChars == <<"A","B","C","D","E","F","G","H","I","J","K","L","M",
                "N","O","P","Q","R","S","T","U","V","W","X","Y","Z">>
LowerChars == <<"a","b","c","d","e","f","g","h","i","j","k","l","m",
                "n","o","p","q","r","s","t","u","v","w","x","y","z">>

Range(s) == { s[i] : i \in 1..Len(s) }
DigitSet == Range(DigitChars)
UpperSet == Range(UpperChars)
LowerSet == Range(LowerChars)

\* the least element of a non-empty set of integers
Least(S) == CHOOSE i \in S : \A j \in S : i <= j

\* bytes.find / list.index: the first position of c in s, 0 when absent
IndexOf(s, c) ==
    LET at == { i \in 1..Len(s) : s[i] = c }
    IN  IF at = {} THEN 0 ELSE Least(at)

IsDigit(c) == c \in DigitSet
DigitVal(c) == IndexOf(DigitChars, c) - 1

\* re.IGNORECASE compares letters regardless of case
UpperOf == [c \in LowerSet |-> UpperChars[IndexOf(LowerChars, c)]]
ToUpper(c) == IF c \in LowerSet THEN UpperOf[c] ELSE c

\* the text s starts with the text p, letters compared regardless of case
StartsWithCI(s, p) ==
    /\ Len(s) >= Len(p)
    /\ \A i \in 1..Len(p) : ToUpper(s[i]) = ToUpper(p[i])

\* p occurs in s as a substring ("p in s")
Contains(s, p) ==
    \E i \in 1..(Len(s) - Len(p) + 1) : SubSeq(s, i, i + Len(p) - 1) = p

ContainsCI(s, p) ==
    \E i \in 1..(Len(s) - Len(p) + 1) : StartsWithCI(SubSeq(s, i, Len(s)), p)

\* the number of consecutive decimal digits of s from position i on (\d* at i)
DigitRun(s, i) ==
    LET stop == { k \in i..Len(s) : ~IsDigit(s[k]) }
    IN  IF stop = {} THEN (IF i > Len(s) THEN 0 ELSE Len(s) - i + 1) ELSE Least(stop) - i

\* int() of a run of decimal digits
RECURSIVE DecVal(_)
DecVal(ds) ==
    IF ds = <<>> THEN 0
    ELSE 10 * DecVal(SubSeq(ds, 1, Len(ds) - 1)) + DigitVal(ds[Len(ds)])

\* str.replace(c, ""): s without the character c
Remove(s, c) == SelectSeq(s, LAMBDA x : x # c)

\* str.strip() for the only whitespace the frames carry, the space
LStrip(s) ==
    LET kept == { k \in 1..Len(s) : s[k] # " " }
    IN  IF kept = {} THEN <<>> ELSE SubSeq(s, Least(kept), Len(s))
RStrip(s) ==
    LET kept == { k \in 1..Len(s) : s[k] # " " }
    IN  IF kept = {} THEN <<>> ELSE SubSeq(s, 1, 0 - Least({ 0 - k : k \in kept }))
Strip(s) == LStrip(RStrip(s))

\* str.split(sep) for a one-character sep: every sep cuts, empty pieces are kept
RECURSIVE Split(_, _)
Split(s, sep) ==
    LET k == IndexOf(s, sep)
    IN  IF k = 0 THEN <<s>>
        ELSE <<SubSeq(s, 1, k - 1)>> \o Split(SubSeq(s, k + 1, Len(s)), sep)

\* "".join(parts)
RECURSIVE Join(_)
Join(parts) == IF parts = <<>> THEN <<>> ELSE parts[1] \o Join(Tail(parts))

\* ------------------------------------------------------------------------
\* QRType and DecodeQRStatus
\* ------------------------------------------------------------------------
PSBTUR2 == "PSBTUR2"
PSBTSPECTER == "PSBTSPECTER"
PSBTURLEGACY == "PSBTURLEGACY"
PSBTBASE64 == "PSBTBASE64"
PSBTBASE43 == "PSBTBASE43"
SEEDSSQR == "SEEDSSQR"
SEEDMNEMONIC == "SEEDMNEMONIC"
SEED4LETTERMNEMONIC == "SEED4LETTERMNEMONIC"
SETTINGS == "SETTINGS"
BITCOINADDRESSQR == "BITCOINADDRESSQR"
SPECTERWALLETQR == "SPECTERWALLETQR"
INVALIDTYPE == "INVALID"
NoType == "None"

PART_COMPLETE == "PART_COMPLETE"
PART_EXISTING == "PART_EXISTING"
COMPLETE == "COMPLETE"
FALSE_STATUS == "FALSE"
INVALID == "INVALID_STATUS"
DecodeQRStatus == {PART_COMPLETE, PART_EXISTING, COMPLETE, FALSE_STATUS, INVALID}

\* ------------------------------------------------------------------------
\* base64 (binascii.a2b_base64 / base64.b64encode)
\* ------------------------------------------------------------------------
B64Chars == UpperChars \o LowerChars \o DigitChars \o <<"+", "/">>
B64Set == Range(B64Chars)
IsB64Char(c) == c \in B64Set \/ c = "="
B64Index == [c \in B64Set |-> IndexOf(B64Chars, c) - 1]
B64Val(c) == IF c = "=" THEN 0 ELSE B64Index[c]

\* the number of "=" that end s (0, 1 or 2 are looked at)
B64Pad(s) ==
    IF Len(s) >= 2 /\ s[Len(s)] = "=" /\ s[Len(s)-1] = "=" THEN 2
    ELSE IF Len(s) >= 1 /\ s[Len(s)] = "=" THEN 1 ELSE 0

\* the shape every output of b64encode has: quads of alphabet characters,
\* padded by at most two trailing "="
B64Shaped(s) ==
    /\ Len(s) % 4 = 0
    /\ \A i \in 1..Len(s) : IsB64Char(s[i])
    /\ \A i \in 1..(Len(s) - B64Pad(s)) : s[i] # "="

RECURSIVE B64DecodeQuads(_)
B64DecodeQuads(s) ==
    IF Len(s) < 4 THEN <<>>
    ELSE LET n == B64Val(s[1]) * 262144 + B64Val(s[2]) * 4096
                    + B64Val(s[3]) * 64 + B64Val(s[4])
         IN  <<n \div 65536, (n \div 256) % 256, n % 256>>
                \o B64DecodeQuads(SubSeq(s, 5, Len(s)))

\* a2b_base64 of a text of the b64encode shape
a2b_base64(s) ==
    LET raw == B64DecodeQuads(s)
    IN  SubSeq(raw, 1, Len(raw) - B64Pad(s))

RECURSIVE b64encode(_)
b64encode(b) ==
    IF b = <<>> THEN <<>>
    ELSE LET k == IF Len(b) >= 3 THEN 3 ELSE Len(b)
             b2 == IF k >= 2 THEN b[2] ELSE 0
             b3 == IF k >= 3 THEN b[3] ELSE 0
             n == b[1] * 65536 + b2 * 256 + b3
             c1 == B64Chars[(n \div 262144) + 1]
             c2 == B64Chars[((n \div 4096) % 64) + 1]
             c3 == IF k >= 2 THEN B64Chars[((n \div 64) % 64) + 1] ELSE "="
             c4 == IF k >= 3 THEN B64Chars[(n % 64) + 1] ELSE "="
         IN  <<c1, c2, c3, c4>> \o b64encode(SubSeq(b, k + 1, Len(b)))

\* DecodeQR.isBase64: b64encode(b64decode(s)) == s.  The lenient b64decode
\* either raises or returns bytes; b64encode only produces texts of the
\* B64Shaped form, so a text of another shape is never its own re-encoding.
isBase64(s) == B64Shaped(s) /\ b64encode(a2b_base64(s)) = s

\* embit's psbt.PSBT.parse, the external structural parser: it accepts the
\* byte strings that start with the PSBT magic "psbt" 0xff
PSBTMagic == <<112, 115, 98, 116, 255>>
PSBTParses(b) == Len(b) >= Len(PSBTMagic) /\ SubSeq(b, 1, Len(PSBTMagic)) = PSBTMagic

isBase64PSBT(s) == isBase64(s) /\ PSBTParses(a2b_base64(s))

\* ------------------------------------------------------------------------
\* base43
\* ------------------------------------------------------------------------
B43Chars == DigitChars \o UpperChars \o <<"$", "*", "+", "-", ".", "/", ":">>
B43Set == Range(B43Chars)
\* __b43chars.find(c)
B43Index == [c \in B43Set |-> IndexOf(B43Chars, c) - 1]

\* Python's unbounded integers, as little-endian base-256 digits without
\* high zero digits (<<>> is 0)
RECURSIVE BigNorm(_)
BigNorm(a) ==
    IF a # <<>> /\ a[Len(a)] = 0 THEN BigNorm(SubSeq(a, 1, Len(a) - 1)) ELSE a

RECURSIVE BigMulAdd(_, _, _)
\* a * m + carry, for small m and carry
BigMulAdd(a, m, carry) ==
    IF a = <<>> THEN (IF carry = 0 THEN <<>>
                      ELSE <<carry % 256>> \o BigMulAdd(<<>>, m, carry \div 256))
    ELSE LET t == a[1] * m + carry
         IN  <<t % 256>> \o BigMulAdd(Tail(a), m, t \div 256)

RECURSIVE BigAddC(_, _, _)
BigAddC(a, b, carry) ==
    IF a = <<>> /\ b = <<>> THEN (IF carry = 0 THEN <<>> ELSE <<carry>>)
    ELSE LET x == IF a = <<>> THEN 0 ELSE a[1]
             y == IF b = <<>> THEN 0 ELSE b[1]
             t == x + y + carry
         IN  <<t % 256>> \o BigAddC(IF a = <<>> THEN <<>> ELSE Tail(a),
                                    IF b = <<>> THEN <<>> ELSE Tail(b), t \div 256)
BigAdd(a, b) == BigNorm(BigAddC(a, b, 0))
BigMul(a, m) == BigNorm(BigMulAdd(a, m, 0))

\* the loop over v[::-1]: long_value += digit * power_of_base;
\* power_of_base *= 43.  i is the position scanned, from Len(v) down to 1.
RECURSIVE B43Accumulate(_, _, _, _)
B43Accumulate(v, i, long_value, power_of_base) ==
    IF i = 0 THEN long_value
    ELSE B43Accumulate(v, i - 1,
                       BigAdd(long_value, BigMul(power_of_base, B43Index[v[i]])),
                       BigMul(power_of_base, 43))

\* the count of '0' characters with a fault: every '0' of the text is
\* counted, not only the leading ones.  C23 must tell this count from the
\* real one.
RECURSIVE B43LeadingZeros_anywhere(_)
B43LeadingZeros_anywhere(v) ==
    IF v = <<>> THEN 0
    ELSE (IF v[1] = B43Chars[1] THEN 1 ELSE 0) + B43LeadingZeros_anywhere(Tail(v))

\* the number of leading '0' characters of v
RECURSIVE B43LeadingZeros(_)
B43LeadingZeros(v) ==
    IF v # <<>> /\ v[1] = B43Chars[1] THEN 1 + B43LeadingZeros(Tail(v)) ELSE 0

Reverse(s) == [i \in 1..Len(s) |-> s[Len(s) + 1 - i]]
Zeros(n) == [i \in 1..n |-> 0]

\* DecodeQR.base43Decode: None when it raises 'Forbidden character', else
\* Some(bytes)
base43Decode(s) ==
    IF \E i \in 1..Len(s) : s[i] \notin B43Set THEN None
    ELSE LET long_value == B43Accumulate(s, Len(s), <<>>, <<1>>)
             \* while long_value >= 256: divmod ... ; result.append(long_value)
             result == IF long_value = <<>> THEN <<0>> ELSE long_value
             nPad == B43LeadingZeros(s)
         IN  Some(Reverse(result \o Zeros(nPad)))

\* isBase43PSBT with a fault: a decode that fails counts as a PSBT.  C12 must
\* tell this check from the real one.
isBase43PSBT_lenient(s) ==
    LET d == base43Decode(s)
    IN  d = None \/ PSBTParses(d[1])

isBase43PSBT(s) ==
    LET d == base43Decode(s)
    IN  d # None /\ PSBTParses(d[1])

\* ------------------------------------------------------------------------
\* TypeClassifier: DecodeQR.SegmentType and the checks it is built from
\* ------------------------------------------------------------------------

\* re.search(r'^p(\d+)of(\d+) ', s, re.IGNORECASE): whether it matches, the
\* two numbers, and the position of the first character after the marker
PHeader(s) ==
    LET n1 == IF Len(s) >= 1 /\ ToUpper(s[1]) = "P" THEN DigitRun(s, 2) ELSE 0
        o  == 2 + n1
        n2 == IF n1 > 0 /\ Len(s) >= o + 1 /\ ToUpper(s[o]) = "O" /\ ToUpper(s[o+1]) = "F"
              THEN DigitRun(s, o + 2) ELSE 0
        sp == o + 2 + n2
    IN  IF n2 > 0 /\ Len(s) >= sp /\ s[sp] = " "
        THEN [ok |-> TRUE, cur |-> DecVal(SubSeq(s, 2, o - 1)),
              tot |-> DecVal(SubSeq(s, o + 2, sp - 1)), body |-> sp + 1]
        ELSE [ok |-> FALSE, cur |-> 0, tot |-> 0, body |-> 0]

\* re.search(r'^p(\d+)of(\d+) ([A-Za-z0-9+\/=]+$)', s, re.IGNORECASE)
MatchesSpecterPSBT(s) ==
    LET h == PHeader(s)
    IN  /\ h.ok
        /\ h.body <= Len(s)
        /\ \A i \in h.body..Len(s) : IsB64Char(s[i])

\* re.search(r'^UR:BYTES/(\d+)OF(\d+)', s, re.IGNORECASE)
URBytesPrefix == <<"U","R",":","B","Y","T","E","S","/">>
URCryptoPrefix == <<"U","R",":","C","R","Y","P","T","O","-","P","S","B","T","/">>
URHeader(s) ==
    LET st == Len(URBytesPrefix) + 1
        n1 == IF StartsWithCI(s, URBytesPrefix) THEN DigitRun(s, st) ELSE 0
        o  == st + n1
        n2 == IF n1 > 0 /\ Len(s) >= o + 1 /\ ToUpper(s[o]) = "O" /\ ToUpper(s[o+1]) = "F"
              THEN DigitRun(s, o + 2) ELSE 0
    IN  IF n2 > 0
        THEN [ok |-> TRUE, cur |-> DecVal(SubSeq(s, st, o - 1)),
              tot |-> DecVal(SubSeq(s, o + 2, o + 1 + n2))]
        ELSE [ok |-> FALSE, cur |-> 0, tot |-> 0]

\* re.search(r'^\{\"label\".*\"descriptor\"\:.*', desc_str, re.IGNORECASE)
LabelOpen == <<"{", "\"", "l","a","b","e","l", "\"">>
DescriptorKey == <<"d","e","s","c","r","i","p","t","o","r">>
DescriptorColon == <<"\"">> \o DescriptorKey \o <<"\"", ":">>
MatchesLabelDescriptor(desc_str) ==
    /\ StartsWithCI(desc_str, LabelOpen)
    /\ ContainsCI(SubSeq(desc_str, Len(LabelOpen) + 1, Len(desc_str)), DescriptorColon)

\* re.search(r'\d{48,96}', s)
SeedDigitsMin == 48
HasSeedDigits(s) == \E i \in 1..Len(s) : DigitRun(s, i) >= SeedDigitsMin

\* the address grammar (bc1|tb1|[123]|[mn])[a-zA-HJ-NP-Z0-9]{25,62}
AddressPrefixes == << <<"b","c","1">>, <<"t","b","1">>, <<"1">>, <<"2">>, <<"3">>,
                      <<"m">>, <<"n">> >>
AddressBodyMin == 25
AddressBodyMax == 62
AddressBodySet == LowerSet \cup DigitSet \cup (UpperSet \ {"I", "O"})
IsAddressBodyChar(c) == c \in AddressBodySet

\* the number of consecutive address-body characters of s from position i on
AddressBodyRun(s, i) ==
    LET stop == { k \in i..Len(s) : ~IsAddressBodyChar(s[k]) }
    IN  IF stop = {} THEN (IF i > Len(s) THEN 0 ELSE Len(s) - i + 1) ELSE Least(stop) - i

\* the match of the address grammar that starts at position i: the index of
\* its prefix in AddressPrefixes (0: no match at i) and the matched length.
\* The alternatives start with different characters, so at most one applies;
\* the body is greedy.
AddressMatchAt(s, i) ==
    LET fits(k) == LET p == AddressPrefixes[k]
                       run == AddressBodyRun(s, i + Len(p))
                   IN  /\ i + Len(p) - 1 <= Len(s)
                       /\ SubSeq(s, i, i + Len(p) - 1) = p
                       /\ run >= AddressBodyMin
    IN  IF \E k \in 1..Len(AddressPrefixes) : fits(k)
        THEN LET k == CHOOSE k \in 1..Len(AddressPrefixes) : fits(k)
                 run == AddressBodyRun(s, i + Len(AddressPrefixes[k]))
             IN  [prefix |-> k,
                  len |-> Len(AddressPrefixes[k])
                          + (IF run > AddressBodyMax THEN AddressBodyMax ELSE run)]
        ELSE [prefix |-> 0, len |-> 0]

\* re.search(r'^(...)$', s): the index of the matched prefix, 0 without match
AddressAnchored(s) ==
    LET m == AddressMatchAt(s, 1)
    IN  IF m.prefix # 0
           /\ AddressBodyRun(s, 1 + Len(AddressPrefixes[m.prefix]))
                = Len(s) - Len(AddressPrefixes[m.prefix])
           /\ Len(s) - Len(AddressPrefixes[m.prefix]) <= AddressBodyMax
        THEN m.prefix ELSE 0

BitcoinURI == <<"b","i","t","c","o","i","n",":">>
isBitcoinAddress(s) == StartsWithCI(s, BitcoinURI) \/ AddressAnchored(s) # 0

\* [word[:4].strip() for word in wordlist]
FourLetter(word) == Strip(SubSeq(word, 1, IF Len(word) < 4 THEN Len(word) ELSE 4))
FourLetterWordlist(wordlist) == [i \in 1..Len(wordlist) |-> FourLetter(wordlist[i])]

AllTokensIn(s, list) ==
    LET toks == Split(Strip(s), " ")
    IN  \A i \in 1..Len(toks) : toks[i] \in Range(list)

TypeSettings == <<"t","y","p","e","=","s","e","t","t","i","n","g","s">>

\* SegmentType with a fault: "type=settings" is looked for before the seed
\* checks.  C18 must tell this order from the real one.
SegmentType_settingsEarly(s, wordlist) ==
    IF StartsWithCI(s, URCryptoPrefix) THEN PSBTUR2
    ELSE IF MatchesSpecterPSBT(s) THEN PSBTSPECTER
    ELSE IF StartsWithCI(s, URBytesPrefix) THEN PSBTURLEGACY
    ELSE IF isBase64PSBT(s) THEN PSBTBASE64
    ELSE IF PHeader(s).ok THEN SPECTERWALLETQR
    ELSE IF MatchesLabelDescriptor(Remove(s, " ")) THEN SPECTERWALLETQR
    ELSE IF Contains(s, TypeSettings) THEN SETTINGS
    ELSE IF HasSeedDigits(s) THEN SEEDSSQR
    ELSE IF isBitcoinAddress(s) THEN BITCOINADDRESSQR
    ELSE IF AllTokensIn(s, wordlist) THEN SEEDMNEMONIC
    ELSE IF AllTokensIn(s, FourLetterWordlist(wordlist)) THEN SEED4LETTERMNEMONIC
    ELSE IF isBase43PSBT(s) THEN PSBTBASE43
    ELSE INVALIDTYPE

\* DecodeQR.SegmentType
SegmentType(s, wordlist) ==
    IF StartsWithCI(s, URCryptoPrefix) THEN PSBTUR2
    ELSE IF MatchesSpecterPSBT(s) THEN PSBTSPECTER
    ELSE IF StartsWithCI(s, URBytesPrefix) THEN PSBTURLEGACY
    ELSE IF isBase64PSBT(s) THEN PSBTBASE64
    ELSE IF PHeader(s).ok THEN SPECTERWALLETQR
    ELSE IF MatchesLabelDescriptor(Remove(s, " ")) THEN SPECTERWALLETQR
    ELSE IF HasSeedDigits(s) THEN SEEDSSQR
    ELSE IF isBitcoinAddress(s) THEN BITCOINADDRESSQR
    ELSE IF AllTokensIn(s, wordlist) THEN SEEDMNEMONIC
    ELSE IF AllTokensIn(s, FourLetterWordlist(wordlist)) THEN SEED4LETTERMNEMONIC
    ELSE IF isBase43PSBT(s) THEN PSBTBASE43
    ELSE IF Contains(s, TypeSettings) THEN SETTINGS
    ELSE INVALIDTYPE

\* ------------------------------------------------------------------------
\* The frames submitted to a session.  They are inputs: texts built to reach
\* every classification and every outcome of every sub-decoder.
\* ------------------------------------------------------------------------

\* the largest segment total a Specter PSBT or Legacy UR frame header carries
MaxTotal == 3
\* the largest segment total a Specter wallet frame header carries
MaxWalletTotal == 2

\* the wordlist handed to DecodeQR(wordlist=...)
Wordlist == << <<"a","b","b","e","y">>,
              <<"a","b","i","l","i","t","y">>,
              <<"a","b","l","e">>,
              <<"a","b","o","u","t">> >>

DecText(n) == <<DigitChars[n + 1]>>
PFrame(i, n, body) == <<"p">> \o DecText(i) \o <<"o","f">> \o DecText(n) \o <<" ">> \o body
URFrame(i, n, payload) ==
    URBytesPrefix \o DecText(i) \o <<"O","F">> \o DecText(n) \o <<"/","h","/">> \o payload

\* base64 fragments: the first two concatenate to the base64 of a PSBT, the
\* third closes a base64 text and so cannot be followed by another
SpecterBodies == { <<"c","H","N","i">>, <<"d","P","8","A">>, <<"A","A","=","=">> }
\* the headers <<index, total>> of the frames: every total up to max, every
\* index from 0 to one past the total
FrameHeaders(max) == { h \in (0..(max + 1)) \X (0..max) : h[1] <= h[2] + 1 }
SpecterFrames ==
    { PFrame(h[1], h[2], b) : h \in FrameHeaders(MaxTotal), b \in SpecterBodies }

LegacyPayloads == { <<"t","y">>, <<"q","z">> }
LegacyFrames ==
    { URFrame(h[1], h[2], b) : h \in FrameHeaders(MaxTotal), b \in LegacyPayloads }
    \cup { URBytesPrefix \o b : b \in LegacyPayloads }
    \cup { <<"u","r",":","b","y","t","e","s","/","1","o","f","2","/","h","/","t","y">> }

\* fragments of wallet documents; none is made of base64 characters only
WalletOpen == <<"{","\"","l","a","b","e","l","\"",":","\"","x","\"",",">>
WalletDescriptor == <<"\"","d","e","s","c","r","i","p","t","o","r","\"",":","\"","w","p","k","h","\"","}">>
WalletOther == <<"\"","o","t","h","e","r","\"",":","\"","y","\"","}">>
WalletNumber == <<"1",".","5">>
WalletString == <<"\"","d","e","s","c","r","i","p","t","o","r","\"">>
WalletFragments == {WalletOpen, WalletDescriptor, WalletOther}
WalletDocument == WalletOpen \o WalletDescriptor
WalletFrames ==
    { PFrame(h[1], h[2], b) : h \in FrameHeaders(MaxWalletTotal), b \in WalletFragments }
    \cup { WalletDocument, PFrame(1, 1, WalletDocument), PFrame(1, 2, <<>>),
           PFrame(1, 1, WalletNumber), PFrame(1, 1, WalletString) }

\* the wallet document {"descriptor":"wpkh"} split into fragments, one of
\* them made of base64 characters only, and the frames that carry them
WalletSplit == << <<"{","\"","d","e","s","c","r","i","p","t","o","r","\"",":","\"">>,
                 <<"w","p","k","h">>,
                 <<"\"","}">> >>
WalletSplitFrames ==
    { PFrame(i, Len(WalletSplit), WalletSplit[i]) : i \in 1..Len(WalletSplit) }

UR2Frames == { <<"U","R",":","C","R","Y","P","T","O","-","P","S","B","T","/","a">>, <<"u","r",":","c","r","y","p","t","o","-","p","s","b","t","/","b">>, <<"U","R",":","C","R","Y","P","T","O","-","P","S","B","T","/","c">> }

Base64Frames == { <<"c","H","N","i","d","P","8","A">>, <<"c","H","N","i","d","P","8","A","A","A","=","=">>,
                  <<"c","H","N","i","d","P","8","A","A","Q","I","=">> }
Base43Frames == { <<"1","X","H","E","J","W","R",".">>, <<"A","O","*","9","3","R","G","C","6">> }

\* numeric seeds: 4-digit groups of wordlist indices
Group(k) == IF k < 10 THEN <<"0","0","0">> \o DecText(k)
            ELSE <<"9","9","9","9">>
RECURSIVE Groups(_)
Groups(ks) == IF ks = <<>> THEN <<>> ELSE Group(ks[1]) \o Groups(Tail(ks))
Indices(n) == [i \in 1..n |-> i % Len(Wordlist)]
SeedNumeric12 == Groups(Indices(12))
SeedNumeric24 == Groups(Indices(24))
SeedNumeric13 == Groups(Indices(13))
SeedNumericOutOfRange == Groups([Indices(12) EXCEPT ![3] = 10])
SeedNumericOdd == SeedNumeric12 \o <<"1">>
SeedNumericSigned == SeedNumeric12 \o <<"-","0","0","1">> \o Groups(Indices(11))
SeedNumericShifted == <<"x">> \o SeedNumeric12 \o <<"0","0","0">>
SeedNumericFrames ==
    { SeedNumeric12, SeedNumeric24, SeedNumeric13, SeedNumericOutOfRange,
      SeedNumericOdd, SeedNumericSigned, SeedNumericShifted }

\* mnemonics: words joined by single spaces
RECURSIVE Phrase(_)
Phrase(ws) == IF Len(ws) = 0 THEN <<>>
              ELSE IF Len(ws) = 1 THEN ws[1]
              ELSE ws[1] \o <<" ">> \o Phrase(Tail(ws))
WordsAt(ks) == [i \in 1..Len(ks) |-> Wordlist[ks[i] + 1]]
\* indices whose last entry is the checksum of the others
RECURSIVE Sum(_)
Sum(ks) == IF ks = <<>> THEN 0 ELSE ks[1] + Sum(Tail(ks))
Checked(ks) == ks \o <<Sum(ks) % Len(Wordlist)>>
Unchecked(ks) == ks \o <<(Sum(ks) + 1) % Len(Wordlist)>>
Mnemonic12 == Phrase(WordsAt(Checked(Indices(11))))
Mnemonic24 == Phrase(WordsAt(Checked(Indices(23))))
Mnemonic13 == Phrase(WordsAt(Checked(Indices(12))))
Mnemonic11 == Phrase(WordsAt(Checked(Indices(10))))
Mnemonic12BadChecksum == Phrase(WordsAt(Unchecked(Indices(11))))
MnemonicFrames == { Mnemonic12, Mnemonic24, Mnemonic13, Mnemonic11, Mnemonic12BadChecksum }

FourLetterWordsAt(ks) == [i \in 1..Len(ks) |-> FourLetter(Wordlist[ks[i] + 1])]
Short12 == Phrase(FourLetterWordsAt(Checked(Indices(11))))
Short13 == Phrase(FourLetterWordsAt(Checked(Indices(12))))
Short12BadChecksum == Phrase(FourLetterWordsAt(Unchecked(Indices(11))))
FourLetterFrames == { Short12, Short13, Short12BadChecksum }

SettingsFrames == {
    <<"t","y","p","e","=","s","e","t","t","i","n","g","s"," ","v","e","r","s","i","o","n","=","1"," ","n","a","m","e","=","M","y","_","W","a","l","l","e","t"," ","x","p","u","b","=","1">>,
    <<"t","y","p","e","=","s","e","t","t","i","n","g","s"," ","v","e","r","s","i","o","n","=","2">>,
    <<"t","y","p","e","=","s","e","t","t","i","n","g","s"," ","v","e","r","s","i","o","n","=","2"," ","n","a","m","e","=","X"," ","x","p","u","b","=","1">>,
    <<"t","y","p","e","=","s","e","t","t","i","n","g","s"," ","v","e","r","s","i","o","n","=","1"," ","x","p","u","b","=","9"," ","s","i","g","s","=","s",",","m">>,
    <<"t","y","p","e","=","s","e","t","t","i","n","g","s"," ","v","e","r","s","i","o","n","=","1"," ","c","o","o","r","d","=","b","w",",","z","z"," ","x","p","_","d","e","t","=","2">>,
    <<"t","y","p","e","=","s","e","t","t","i","n","g","s"," ","v","e","r","s","i","o","n","=","1"," ","x","p","u","b","=","0"," ","x","p","u","b","=","2">>,
    <<"t","y","p","e","=","s","e","t","t","i","n","g","s">>,
    <<"t","y","p","e","=","s","e","t","t","i","n","g","s"," ","n","o","v","a","l","u","e"," ","v","e","r","s","i","o","n","=","1">>,
    <<"t","y","p","e","=","s","e","t","t","i","n","g","s"," ","v","e","r","s","i","o","n","=","x">> }

AddressBody == [i \in 1..AddressBodyMin |-> "q"]
AddressLegacy == <<"1">> \o AddressBody
AddressBech32 == <<"b","c","1">> \o AddressBody
AddressFrames ==
    { AddressLegacy, AddressBech32, <<"t","b","1">> \o AddressBody, <<"m">> \o AddressBody,
      <<"3">> \o AddressBody, <<"2">> \o AddressBody,
      BitcoinURI \o AddressLegacy, BitcoinURI \o <<"?">> \o AddressBech32,
      BitcoinURI \o <<"j","u","n","k">> }

InvalidFrames == { <<>>, <<"?">>, <<"A","A","A","A">> }

Frames ==
    SpecterFrames \cup LegacyFrames \cup WalletFrames \cup WalletSplitFrames \cup UR2Frames
    \cup Base64Frames
    \cup Base43Frames \cup SeedNumericFrames \cup MnemonicFrames \cup FourLetterFrames
    \cup SettingsFrames \cup AddressFrames \cup InvalidFrames

\* the classification of every frame (SegmentType is computed once per frame)
FrameType == [f \in Frames |-> SegmentType(f, Wordlist)]

\* ------------------------------------------------------------------------
\* json.loads, as far as SpecterDecodeWalletQR looks at its result: whether
\* the text parses, the kind of the value, whether "descriptor" in value
\* holds, and value["descriptor"] (the text of an object's member)
\* ------------------------------------------------------------------------
JsonFail == [ok |-> FALSE, next |-> 0, kind |-> "none", has |-> FALSE, desc |-> None,
             text |-> <<>>]

\* the first position from i on that holds no space
JsonSkip(s, i) ==
    LET kept == { k \in i..Len(s) : s[k] # " " }
    IN  IF kept = {} THEN (IF i > Len(s) THEN i ELSE Len(s) + 1) ELSE Least(kept)

StartsAt(s, i, p) == i + Len(p) - 1 <= Len(s) /\ SubSeq(s, i, i + Len(p) - 1) = p

JsonLiterals == << <<"t","r","u","e">>, <<"f","a","l","s","e">>, <<"n","u","l","l">>,
                   <<"N","a","N">>, <<"I","n","f","i","n","i","t","y">>,
                   <<"-","I","n","f","i","n","i","t","y">> >>

\* a string that opens at i; the frames carry no backslash escapes
JsonString(s, i) ==
    IF \E j \in (i+1)..Len(s) : s[j] = "\""
    THEN LET j == Least({ j \in (i+1)..Len(s) : s[j] = "\"" })
             content == SubSeq(s, i + 1, j - 1)
         IN  [ok |-> TRUE, next |-> j + 1, kind |-> "string",
              has |-> Contains(content, DescriptorKey), desc |-> None, text |-> content]
    ELSE JsonFail

\* -?(0|[1-9]\d*)(\.\d+)?([eE][-+]?\d+)?
JsonNumber(s, i) ==
    Let(IF s[i] = "-" THEN i + 1 ELSE i, LAMBDA st :
    Let(IF st > Len(s) THEN 0 ELSE IF s[st] = "0" THEN 1 ELSE DigitRun(s, st), LAMBDA ni :
    Let(st + ni, LAMBDA p :
    Let(IF p + 1 <= Len(s) /\ s[p] = "." THEN DigitRun(s, p + 1) ELSE 0, LAMBDA nf :
    Let(IF nf > 0 THEN p + 1 + nf ELSE p, LAMBDA q :
    Let(IF q + 1 <= Len(s) /\ s[q] \in {"e", "E"} /\ s[q+1] \in {"+", "-"} THEN 1 ELSE 0, LAMBDA sg :
    Let(IF q + 1 + sg <= Len(s) /\ s[q] \in {"e", "E"}
        THEN DigitRun(s, q + 1 + sg) ELSE 0, LAMBDA ne :
    Let(IF ne > 0 THEN q + 1 + sg + ne ELSE q, LAMBDA r :
        IF ni = 0 THEN JsonFail
        ELSE [ok |-> TRUE, next |-> r, kind |-> "number", has |-> FALSE, desc |-> None,
              text |-> SubSeq(s, i, r - 1)]))))))))

RECURSIVE JsonValue(_, _)
RECURSIVE JsonMembers(_, _, _)
RECURSIVE JsonElements(_, _, _)

\* the members of an object from position i on (just after "{" or ","):
\* acc carries has/desc of the members read so far; a later member of the
\* same name replaces an earlier one
JsonMembers(s, i, acc) ==
    Let(JsonSkip(s, i), LAMBDA k :
    Let(IF k <= Len(s) /\ s[k] = "\"" THEN JsonString(s, k) ELSE JsonFail, LAMBDA ky :
    Let(IF ky.ok THEN JsonSkip(s, ky.next) ELSE 0, LAMBDA c :
    Let(IF ky.ok /\ c <= Len(s) /\ s[c] = ":" THEN JsonValue(s, JsonSkip(s, c + 1))
        ELSE JsonFail, LAMBDA v :
    Let(IF v.ok THEN JsonSkip(s, v.next) ELSE 0, LAMBDA e :
    Let(IF ky.ok /\ ky.text = DescriptorKey
        THEN [has |-> TRUE, desc |-> Some(v.text)] ELSE acc, LAMBDA acc2 :
        IF ~v.ok \/ e > Len(s) THEN JsonFail
        ELSE IF s[e] = "}"
             THEN [ok |-> TRUE, next |-> e + 1, kind |-> "object", has |-> acc2.has,
                   desc |-> acc2.desc, text |-> <<>>]
        ELSE IF s[e] = "," THEN JsonMembers(s, e + 1, acc2)
        ELSE JsonFail))))))

\* the elements of an array from position i on (just after "[" or ",")
JsonElements(s, i, has) ==
    Let(JsonValue(s, JsonSkip(s, i)), LAMBDA v :
    Let(IF v.ok THEN JsonSkip(s, v.next) ELSE 0, LAMBDA e :
    Let(has \/ (v.ok /\ v.kind = "string" /\ v.text = DescriptorKey), LAMBDA has2 :
        IF ~v.ok \/ e > Len(s) THEN JsonFail
        ELSE IF s[e] = "]"
             THEN [ok |-> TRUE, next |-> e + 1, kind |-> "array", has |-> has2,
                   desc |-> None, text |-> <<>>]
        ELSE IF s[e] = "," THEN JsonElements(s, e + 1, has2)
        ELSE JsonFail)))

\* a value whose text is s[i..r.next-1] once r is read
JsonSpan(s, i, r) == IF r.ok THEN [r EXCEPT !.text = SubSeq(s, i, r.next - 1)] ELSE r
JsonEmpty(k, kind) ==
    [ok |-> TRUE, next |-> k + 1, kind |-> kind, has |-> FALSE, desc |-> None, text |-> <<>>]

JsonValue(s, i) ==
    IF i > Len(s) THEN JsonFail
    ELSE IF s[i] = "\"" THEN JsonString(s, i)
    ELSE IF s[i] = "{"
         THEN Let(JsonSkip(s, i + 1), LAMBDA k :
                  JsonSpan(s, i, IF k <= Len(s) /\ s[k] = "}" THEN JsonEmpty(k, "object")
                                 ELSE JsonMembers(s, i + 1, [has |-> FALSE, desc |-> None])))
    ELSE IF s[i] = "["
         THEN Let(JsonSkip(s, i + 1), LAMBDA k :
                  JsonSpan(s, i, IF k <= Len(s) /\ s[k] = "]" THEN JsonEmpty(k, "array")
                                 ELSE JsonElements(s, i + 1, FALSE)))
    ELSE IF \E n \in 1..Len(JsonLiterals) : StartsAt(s, i, JsonLiterals[n])
         THEN Let(CHOOSE n \in 1..Len(JsonLiterals) : StartsAt(s, i, JsonLiterals[n]), LAMBDA n :
                  [ok |-> TRUE, next |-> i + Len(JsonLiterals[n]), kind |-> "literal",
                   has |-> FALSE, desc |-> None, text |-> JsonLiterals[n]])
    ELSE IF IsDigit(s[i]) \/ s[i] = "-" THEN JsonNumber(s, i)
    ELSE JsonFail

\* json.loads(j): one value, nothing but spaces around it
json_loads(j) ==
    LET v == JsonValue(j, JsonSkip(j, 1))
    IN  IF v.ok /\ JsonSkip(j, v.next) = Len(j) + 1 THEN v ELSE JsonFail

\* ------------------------------------------------------------------------
\* How a call ends: with a DecodeQRStatus, or with an exception
\* ------------------------------------------------------------------------
RAISE_TYPE_CHANGE == "raise: QR Fragement Unexpected Type Change"
RAISE_TOTAL_CHANGED == "raise: segment total changed unexpectedly"
RAISE_UNABLE_TO_PARSE == "raise: Unable to parse segment"
RAISE_LEGACY_UR == "raise: Unexpected Legacy UR Error"
RAISE_INDEX_ERROR == "raise: IndexError"
RAISE_TYPE_ERROR == "raise: TypeError"
Raises == {RAISE_TYPE_CHANGE, RAISE_TOTAL_CHANGED, RAISE_UNABLE_TO_PARSE, RAISE_LEGACY_UR,
           RAISE_INDEX_ERROR, RAISE_TYPE_ERROR}
\* the two errors the design calls fatal
FatalRaises == {RAISE_TYPE_CHANGE, RAISE_TOTAL_CHANGED}

\* the outcome of a method: the object after the call and what the call
\* returned or raised
Outcome(self, rt) == [self |-> self, rt |-> rt]

\* segments[n - 1] of a Python list of length total, as a position 1..total;
\* 0 stands for IndexError (index -1 is the last element)
PyIndex(n, total) ==
    IF n = 0 THEN total
    ELSE IF n <= total THEN n ELSE 0

\* [None] * (total + 1), a fault: one slot more than the total.  C22 must
\* tell this allocation from the real one.
EmptySegments_oneMore(total) == [i \in 1..(total + 1) |-> None]

\* [None] * total
EmptySegments(total) == [i \in 1..total |-> None]

\* __init__ of the three reassemblers
SegmentsInit ==
    [total_segments |-> None, collected_segments |-> 0, complete |-> FALSE, segments |-> <<>>]

\* ------------------------------------------------------------------------
\* SpecterDecodePSBTQR
\* ------------------------------------------------------------------------
\* Inside the sub-decoders SegmentType is called without a wordlist.  That
\* only matters for texts that pass none of the PSBT and wallet checks, and
\* for those the caller raises whatever SegmentType does.
SegmentTypeNoWordlist == [f \in Frames |-> SegmentType(f, <<>>)]

SpecterDecodePSBTQR_currentSegmentNum(segment) ==
    IF SegmentTypeNoWordlist[segment] = PSBTSPECTER /\ PHeader(segment).ok
    THEN Some(PHeader(segment).cur) ELSE None

SpecterDecodePSBTQR_totalSegmentNum(segment) ==
    IF SegmentTypeNoWordlist[segment] = PSBTSPECTER /\ PHeader(segment).ok
    THEN Some(PHeader(segment).tot) ELSE None

SpecterDecodePSBTQR_parseSegment(segment) ==
    LET parts == Split(segment, " ") IN Strip(parts[Len(parts)])

\* what add reads off a frame (total, cur and payload), computed once per frame
SpecterParsed ==
    [f \in Frames |-> [total |-> SpecterDecodePSBTQR_totalSegmentNum(f),
                       cur |-> SpecterDecodePSBTQR_currentSegmentNum(f),
                       payload |-> SpecterDecodePSBTQR_parseSegment(f)]]

\* SpecterDecodePSBTQR.add with a fault: a frame for a filled slot is counted
\* again.  C6 must tell this reassembler from the real one.
SpecterDecodePSBTQR_addParsed_countAgain(self, parsed) ==
    LET total == parsed.total
        cur == parsed.cur
        s1 == IF self.total_segments = None
              THEN [self EXCEPT !.total_segments = total,
                                !.segments = EmptySegments(total[1])]
              ELSE self
        k == PyIndex(cur[1], Len(s1.segments))
        s2 == [s1 EXCEPT !.segments[k] = IF @ = None THEN Some(parsed.payload) ELSE @,
                         !.collected_segments = @ + 1]
    IN  IF total = None THEN Outcome(self, RAISE_UNABLE_TO_PARSE)
        ELSE IF self.total_segments # None /\ self.total_segments # total
             THEN Outcome(self, RAISE_TOTAL_CHANGED)
        ELSE IF cur = None THEN Outcome(s1, RAISE_UNABLE_TO_PARSE)
        ELSE IF k = 0 THEN Outcome(s1, RAISE_INDEX_ERROR)
        ELSE IF s2.total_segments = Some(s2.collected_segments)
             THEN Outcome([s2 EXCEPT !.complete = TRUE], COMPLETE)
        ELSE IF s1.segments[k] = None THEN Outcome(s2, PART_COMPLETE)
        ELSE Outcome(s2, PART_EXISTING)

SpecterDecodePSBTQR_addParsed(self, parsed) ==
    LET total == parsed.total
        cur == parsed.cur
        s1 == IF self.total_segments = None
              THEN [self EXCEPT !.total_segments = total,
                                !.segments = EmptySegments(total[1])]
              ELSE self
        k == PyIndex(cur[1], Len(s1.segments))
        s2 == [s1 EXCEPT !.segments[k] = Some(parsed.payload),
                         !.collected_segments = @ + 1]
    IN  IF total = None THEN Outcome(self, RAISE_UNABLE_TO_PARSE)
        ELSE IF self.total_segments # None /\ self.total_segments # total
             THEN Outcome(self, RAISE_TOTAL_CHANGED)
        ELSE IF cur = None THEN Outcome(s1, RAISE_UNABLE_TO_PARSE)
        ELSE IF k = 0 THEN Outcome(s1, RAISE_INDEX_ERROR)
        ELSE IF s1.segments[k] = None
             THEN IF s2.total_segments = Some(s2.collected_segments)
                  THEN Outcome([s2 EXCEPT !.complete = TRUE], COMPLETE)
                  ELSE Outcome(s2, PART_COMPLETE)
        ELSE Outcome(s1, PART_EXISTING)

SpecterDecodePSBTQR_add(self, segment) ==
    SpecterDecodePSBTQR_addParsed(self, SpecterParsed[segment])

\* "".join(reversed(self.segments)), a fault: the slots joined last to first.
\* C7 must tell this join from the real one.
JoinSegments_reversed(segments) ==
    IF \E i \in 1..Len(segments) : segments[i] = None THEN None
    ELSE Some(Join([i \in 1..Len(segments) |-> segments[Len(segments) + 1 - i][1]]))

\* "".join(self.segments): None when it raises TypeError (a slot is None)
JoinSegments(segments) ==
    IF \E i \in 1..Len(segments) : segments[i] = None THEN None
    ELSE Some(Join([i \in 1..Len(segments) |-> segments[i][1]]))

\* getBase64Data: [raised, value]; value is None or Some(text)
SpecterDecodePSBTQR_getBase64Data(self) ==
    LET base64 == JoinSegments(self.segments)
    IN  IF base64 = None THEN [raised |-> TRUE, value |-> None]
        ELSE IF self.complete /\ isBase64(base64[1])
             THEN [raised |-> FALSE, value |-> base64]
        ELSE [raised |-> FALSE, value |-> None]

SpecterDecodePSBTQR_getData(self) ==
    LET base64 == SpecterDecodePSBTQR_getBase64Data(self)
    IN  IF base64.raised THEN base64
        ELSE IF base64.value # None
             THEN [raised |-> FALSE, value |-> Some(a2b_base64(base64.value[1]))]
        ELSE [raised |-> FALSE, value |-> None]

\* ------------------------------------------------------------------------
\* LegacyURDecodeQR
\* ------------------------------------------------------------------------
\* None: 'Unable to parse Legacy UR segment'; <<-1>>: 'Unexpected Legacy UR
\* Error' (no <N>OF<M> header)
LegacyURDecodeQR_currentSegmentNum(segment) ==
    IF SegmentTypeNoWordlist[segment] = PSBTURLEGACY
    THEN (IF URHeader(segment).ok THEN Some(URHeader(segment).cur) ELSE Some(-1))
    ELSE None

LegacyURDecodeQR_totalSegmentNum(segment) ==
    IF SegmentTypeNoWordlist[segment] = PSBTURLEGACY
    THEN (IF URHeader(segment).ok THEN Some(URHeader(segment).tot) ELSE Some(1))
    ELSE None

LegacyURDecodeQR_parseSegment(segment) ==
    LET parts == Split(segment, "/") IN Strip(parts[Len(parts)])

LegacyParsed ==
    [f \in Frames |-> [total |-> LegacyURDecodeQR_totalSegmentNum(f),
                       cur |-> LegacyURDecodeQR_currentSegmentNum(f),
                       payload |-> LegacyURDecodeQR_parseSegment(f)]]

\* LegacyURDecodeQR.add with a fault: a frame for a filled slot replaces the
\* stored fragment.  C5 must tell this reassembler from the real one.
LegacyURDecodeQR_addParsed_overwrite(self, parsed) ==
    LET total == parsed.total
        cur == parsed.cur
        s1 == IF self.total_segments = None
              THEN [self EXCEPT !.total_segments = total,
                                !.segments = EmptySegments(total[1])]
              ELSE self
        k == PyIndex(cur[1], Len(s1.segments))
        s2 == [s1 EXCEPT !.segments[k] = Some(parsed.payload),
                         !.collected_segments = @ + 1]
    IN  IF total = None THEN Outcome(self, RAISE_UNABLE_TO_PARSE)
        ELSE IF self.total_segments # None /\ self.total_segments # total
             THEN Outcome(self, RAISE_TOTAL_CHANGED)
        ELSE IF cur = None THEN Outcome(s1, RAISE_UNABLE_TO_PARSE)
        ELSE IF cur = Some(-1) THEN Outcome(s1, RAISE_LEGACY_UR)
        ELSE IF k = 0 THEN Outcome(s1, RAISE_INDEX_ERROR)
        ELSE IF s1.segments[k] = None
             THEN IF s2.total_segments = Some(s2.collected_segments)
                  THEN Outcome([s2 EXCEPT !.complete = TRUE], COMPLETE)
                  ELSE Outcome(s2, PART_COMPLETE)
        ELSE Outcome([s1 EXCEPT !.segments[k] = Some(parsed.payload)], PART_EXISTING)

LegacyURDecodeQR_addParsed(self, parsed) ==
    LET total == parsed.total
        cur == parsed.cur
        s1 == IF self.total_segments = None
              THEN [self EXCEPT !.total_segments = total,
                                !.segments = EmptySegments(total[1])]
              ELSE self
        k == PyIndex(cur[1], Len(s1.segments))
        s2 == [s1 EXCEPT !.segments[k] = Some(parsed.payload),
                         !.collected_segments = @ + 1]
    IN  IF total = None THEN Outcome(self, RAISE_UNABLE_TO_PARSE)
        ELSE IF self.total_segments # None /\ self.total_segments # total
             THEN Outcome(self, RAISE_TOTAL_CHANGED)
        ELSE IF cur = None THEN Outcome(s1, RAISE_UNABLE_TO_PARSE)
        ELSE IF cur = Some(-1) THEN Outcome(s1, RAISE_LEGACY_UR)
        ELSE IF k = 0 THEN Outcome(s1, RAISE_INDEX_ERROR)
        ELSE IF s1.segments[k] = None
             THEN IF s2.total_segments = Some(s2.collected_segments)
                  THEN Outcome([s2 EXCEPT !.complete = TRUE], COMPLETE)
                  ELSE Outcome(s2, PART_COMPLETE)
        ELSE Outcome(s1, PART_EXISTING)

LegacyURDecodeQR_add(self, segment) ==
    LegacyURDecodeQR_addParsed(self, LegacyParsed[segment])

\* cbor_decode(bc32decode(text)) of seedsigner.helpers.bcur, the external
\* unwrapping: the result is known only as the unwrapping of that text
BcurUnwrap(text) == [cbor_of_bc32 |-> text]

LegacyURDecodeQR_getData(self) ==
    IF ~self.complete THEN [raised |-> FALSE, value |-> None]
    ELSE LET bc32_cbor == JoinSegments(self.segments)
         IN  IF bc32_cbor = None THEN [raised |-> TRUE, value |-> None]
             ELSE [raised |-> FALSE, value |-> Some(BcurUnwrap(bc32_cbor[1]))]

\* ------------------------------------------------------------------------
\* SpecterDecodeWalletQR
\* ------------------------------------------------------------------------
\* None: the method returns None (the text is no wallet frame)
SpecterDecodeWalletQR_currentSegmentNum(segment) ==
    IF SegmentTypeNoWordlist[segment] = SPECTERWALLETQR
    THEN (IF PHeader(segment).ok THEN Some(PHeader(segment).cur) ELSE Some(1))
    ELSE None

SpecterDecodeWalletQR_totalSegmentNum(segment) ==
    IF SegmentTypeNoWordlist[segment] = SPECTERWALLETQR
    THEN (IF PHeader(segment).ok THEN Some(PHeader(segment).tot) ELSE Some(1))
    ELSE None

\* re.search(r'^p(\d+)of(\d+) (.+$)', ...).group(3), the whole text when the
\* search finds nothing
SpecterDecodeWalletQR_parseSegment(segment) ==
    LET h == PHeader(segment)
    IN  IF h.ok /\ h.body <= Len(segment) THEN SubSeq(segment, h.body, Len(segment))
        ELSE segment

\* validateJson: "raise" (TypeError of the join), TRUE or FALSE
SpecterDecodeWalletQR_validateJson(self) ==
    Let(JoinSegments(self.segments), LAMBDA j :
        IF j = None THEN "raise"
        ELSE IF json_loads(j[1]).ok THEN "True" ELSE "False")

\* validateWalletDescriptor: "raise", "True", "False" or "None"
SpecterDecodeWalletQR_validateWalletDescriptor(self) ==
    Let(SpecterDecodeWalletQR_validateJson(self), LAMBDA v :
        IF v = "raise" THEN "raise"
        ELSE IF v = "False" THEN "None"
        ELSE Let(json_loads(JoinSegments(self.segments)[1]), LAMBDA data :
                 \* "descriptor" in data raises TypeError for a number, a
                 \* boolean and null
                 IF data.kind \in {"number", "literal"} THEN "raise"
                 ELSE IF data.has THEN "True" ELSE "False"))

WalletParsed ==
    [f \in Frames |-> [total |-> SpecterDecodeWalletQR_totalSegmentNum(f),
                       cur |-> SpecterDecodeWalletQR_currentSegmentNum(f),
                       payload |-> SpecterDecodeWalletQR_parseSegment(f)]]

\* SpecterDecodeWalletQR.add with a fault: the total of a later frame is not
\* compared with the one in force; the frame is stored if its slot exists.
\* C2 must tell this reassembler from the real one.
SpecterDecodeWalletQR_addParsed_anyTotal(self, parsed) ==
    LET total == parsed.total
        cur == parsed.cur
        s1 == IF self.total_segments = None
              THEN [self EXCEPT !.total_segments = total,
                                !.segments = EmptySegments(total[1])]
              ELSE self
        k == PyIndex(cur[1], Len(s1.segments))
        s2 == [s1 EXCEPT !.segments[k] = Some(parsed.payload),
                         !.collected_segments = @ + 1]
    IN  IF total = None THEN Outcome(self, RAISE_TYPE_ERROR)
        ELSE IF cur = None THEN Outcome(s1, RAISE_TYPE_ERROR)
        ELSE IF k = 0 THEN Outcome(s1, RAISE_INDEX_ERROR)
        ELSE IF s1.segments[k] = None
             THEN IF s2.total_segments = Some(s2.collected_segments)
                  THEN Let(SpecterDecodeWalletQR_validateWalletDescriptor(s2), LAMBDA valid :
                           IF valid = "raise" THEN Outcome(s2, RAISE_TYPE_ERROR)
                           ELSE IF valid = "True"
                                THEN Outcome([s2 EXCEPT !.complete = TRUE], COMPLETE)
                           ELSE Outcome(s2, INVALID))
                  ELSE Outcome(s2, PART_COMPLETE)
        ELSE Outcome(s1, PART_EXISTING)

SpecterDecodeWalletQR_addParsed(self, parsed) ==
    LET total == parsed.total
        cur == parsed.cur
        s1 == IF self.total_segments = None
              THEN [self EXCEPT !.total_segments = total,
                                !.segments = EmptySegments(total[1])]
              ELSE self
        k == PyIndex(cur[1], Len(s1.segments))
        s2 == [s1 EXCEPT !.segments[k] = Some(parsed.payload),
                         !.collected_segments = @ + 1]
    IN  \* [None] * None and None - 1 raise TypeError
        IF total = None THEN Outcome(self, IF self.total_segments = None THEN RAISE_TYPE_ERROR
                                           ELSE RAISE_TOTAL_CHANGED)
        ELSE IF self.total_segments # None /\ self.total_segments # total
             THEN Outcome(self, RAISE_TOTAL_CHANGED)
        ELSE IF cur = None THEN Outcome(s1, RAISE_TYPE_ERROR)
        ELSE IF k = 0 THEN Outcome(s1, RAISE_INDEX_ERROR)
        ELSE IF s1.segments[k] = None
             THEN IF s2.total_segments = Some(s2.collected_segments)
                  THEN Let(SpecterDecodeWalletQR_validateWalletDescriptor(s2), LAMBDA valid :
                           IF valid = "raise" THEN Outcome(s2, RAISE_TYPE_ERROR)
                           ELSE IF valid = "True"
                                THEN Outcome([s2 EXCEPT !.complete = TRUE], COMPLETE)
                           ELSE Outcome(s2, INVALID))
                  ELSE Outcome(s2, PART_COMPLETE)
        ELSE Outcome(s1, PART_EXISTING)

SpecterDecodeWalletQR_add(self, segment) ==
    SpecterDecodeWalletQR_addParsed(self, WalletParsed[segment])

\* getWalletDescriptor: [raised, value]
SpecterDecodeWalletQR_getWalletDescriptor(self) ==
    Let(SpecterDecodeWalletQR_validateWalletDescriptor(self), LAMBDA valid :
        IF valid = "raise" THEN [raised |-> TRUE, value |-> None]
        ELSE IF valid = "True"
             THEN Let(json_loads(JoinSegments(self.segments)[1]), LAMBDA data :
                      \* data["descriptor"] raises TypeError unless data is an object
                      IF data.kind = "object" THEN [raised |-> FALSE, value |-> data.desc]
                      ELSE [raised |-> TRUE, value |-> None])
        ELSE [raised |-> FALSE, value |-> None])

\* ------------------------------------------------------------------------
\* Base64DecodeQR and Base43DecodeQR
\* ------------------------------------------------------------------------
SingleInit == [collected_segments |-> 0, complete |-> FALSE, data |-> None]

Base64DecodeQR_add(self, segment) ==
    IF isBase64(segment)
    THEN Outcome([self EXCEPT !.complete = TRUE, !.data = Some(segment),
                              !.collected_segments = 1], COMPLETE)
    ELSE Outcome(self, INVALID)

Base64DecodeQR_getData(self) ==
    IF self.data # None THEN Some(a2b_base64(self.data[1])) ELSE None

Base43DecodeQR_add(self, segment) ==
    IF isBase43PSBT(segment)
    THEN Outcome([self EXCEPT !.complete = TRUE, !.data = base43Decode(segment),
                              !.collected_segments = 1], COMPLETE)
    ELSE Outcome(self, INVALID)

Base43DecodeQR_getData(self) == self.data

\* ------------------------------------------------------------------------
\* SeedQR
\* ------------------------------------------------------------------------
SeedQRInit == [collected_segments |-> 0, complete |-> FALSE, seed_phrase |-> <<>>]

\* int(text) of a 4-character group: an optional sign and decimal digits,
\* spaces around them ignored; None when int() raises ValueError
PyInt(text) ==
    LET s == Strip(text)
        signed == s # <<>> /\ s[1] \in {"+", "-"}
        ds == IF signed THEN Tail(s) ELSE s
    IN  IF ds = <<>> \/ \E i \in 1..Len(ds) : ~IsDigit(ds[i]) THEN None
        ELSE Some(IF signed /\ s[1] = "-" THEN 0 - DecVal(ds) ELSE DecVal(ds))

\* wordlist[index] with Python's negative indices; None for IndexError
PyItem(list, index) ==
    IF index >= 0 /\ index < Len(list) THEN Some(list[index + 1])
    ELSE IF index < 0 /\ index >= 0 - Len(list) THEN Some(list[Len(list) + index + 1])
    ELSE None

\* the loop of the SEEDSSQR branch from group i on: the words appended to
\* seed_phrase, and whether the loop ran to its end without an exception
RECURSIVE SeedQR_numericWords(_, _, _, _)
SeedQR_numericWords(wordlist, segment, i, num_words) ==
    IF i >= num_words THEN [ok |-> TRUE, words |-> <<>>]
    ELSE LET index == PyInt(SubSeq(segment, i * 4 + 1, i * 4 + 4))
             word == IF index = None THEN None ELSE PyItem(wordlist, index[1])
             rest == SeedQR_numericWords(wordlist, segment, i + 1, num_words)
         IN  IF word = None THEN [ok |-> FALSE, words |-> <<>>]
             ELSE [ok |-> rest.ok, words |-> word \o rest.words]

SeedQR_is1224Phrase(seed_phrase) == Len(seed_phrase) \in {12, 24}

\* Seed(mnemonic, passphrase="", wordlist=...), the mnemonic validator: TRUE
\* when the constructor returns, FALSE when it raises.  The word counts are
\* those of Seed.__init__; the checksum stands for the validation of the
\* external seed library: the last word is the sum of the others.
SeedWordCounts == {12, 13, 24, 25}
WordIndices(wordlist, words) == [i \in 1..Len(words) |-> IndexOf(wordlist, words[i]) - 1]
SeedValidates(wordlist, words) ==
    /\ Len(words) \in SeedWordCounts
    /\ \A i \in 1..Len(words) : words[i] \in Range(wordlist)
    /\ LET ks == WordIndices(wordlist, words)
       IN  ks[Len(ks)] = Sum(SubSeq(ks, 1, Len(ks) - 1)) % Len(wordlist)

SeedQR_add(self, wordlist, segment, qr_type) ==
    IF qr_type = SEEDSSQR
    THEN Let(SeedQR_numericWords(wordlist, segment, 0, Len(segment) \div 4), LAMBDA loop :
         Let([self EXCEPT !.seed_phrase = loop.words], LAMBDA s1 :
             IF ~loop.ok THEN Outcome(s1, INVALID)
             ELSE IF Len(loop.words) > 0
                  THEN IF ~SeedQR_is1224Phrase(loop.words) THEN Outcome(s1, INVALID)
                       ELSE Outcome([s1 EXCEPT !.complete = TRUE, !.collected_segments = 1],
                                    COMPLETE)
             ELSE Outcome(s1, INVALID)))
    ELSE IF qr_type = SEEDMNEMONIC
    THEN Let(Split(Strip(segment), " "), LAMBDA words :
         Let([self EXCEPT !.seed_phrase = words], LAMBDA s1 :
             IF ~SeedValidates(wordlist, words) THEN Outcome(self, INVALID)
             ELSE IF ~SeedQR_is1224Phrase(words) THEN Outcome(s1, INVALID)
             ELSE Outcome([s1 EXCEPT !.complete = TRUE, !.collected_segments = 1], COMPLETE)))
    ELSE IF qr_type = SEED4LETTERMNEMONIC
    THEN Let(Split(Strip(segment), " "), LAMBDA sl :
         Let(FourLetterWordlist(wordlist), LAMBDA short :
             IF \E i \in 1..Len(sl) : IndexOf(short, sl[i]) = 0 THEN Outcome(self, INVALID)
             ELSE Let([i \in 1..Len(sl) |-> wordlist[IndexOf(short, sl[i])]], LAMBDA words :
                  Let([self EXCEPT !.seed_phrase = words], LAMBDA s1 :
                      IF ~SeedValidates(wordlist, words) THEN Outcome(self, INVALID)
                      ELSE IF ~SeedQR_is1224Phrase(words) THEN Outcome(s1, INVALID)
                      ELSE Outcome([s1 EXCEPT !.complete = TRUE, !.collected_segments = 1],
                                   COMPLETE)))))
    ELSE Outcome(self, INVALID)

SeedQR_getSeedPhrase(self) == IF self.complete THEN self.seed_phrase ELSE <<>>

\* ------------------------------------------------------------------------
\* BitcoinAddressQR
\* ------------------------------------------------------------------------
AddressQRInit ==
    [collected_segments |-> 0, complete |-> FALSE, address |-> None, address_type |-> None]

\* re.search of the unanchored address grammar: the leftmost match
AddressSearch(segment) ==
    Let({ i \in 1..Len(segment) : AddressMatchAt(segment, i).prefix # 0 }, LAMBDA at :
        IF at = {} THEN None
        ELSE Let(Least(at), LAMBDA i :
                 Some(SubSeq(segment, i, i + AddressMatchAt(segment, i).len - 1))))

\* the address-type table with a fault: the test-network prefixes m and n
\* are tagged as the main network.  C21 must tell this table from the real one.
AddressTypeOf_mainOnly(prefix) ==
    IF prefix \in {<<"1">>, <<"m">>, <<"n">>} THEN Some("P2PKH-main")
    ELSE IF prefix = <<"3">> THEN Some("P2SH-main")
    ELSE IF prefix = <<"2">> THEN Some("P2SH-test")
    ELSE IF prefix = <<"b","c","1">> THEN Some("Bech32-main")
    ELSE IF prefix = <<"t","b","1">> THEN Some("Bech32-test")
    ELSE None

AddressTypeOf(prefix) ==
    IF prefix = <<"1">> THEN Some("P2PKH-main")
    ELSE IF prefix = <<"m">> \/ prefix = <<"n">> THEN Some("P2PKH-test")
    ELSE IF prefix = <<"3">> THEN Some("P2SH-main")
    ELSE IF prefix = <<"2">> THEN Some("P2SH-test")
    ELSE IF prefix = <<"b","c","1">> THEN Some("Bech32-main")
    ELSE IF prefix = <<"t","b","1">> THEN Some("Bech32-test")
    ELSE None

BitcoinAddressQR_add(self, segment) ==
    Let(AddressSearch(segment), LAMBDA r :
        IF r = None THEN Outcome(self, INVALID)
        ELSE Let([self EXCEPT !.address = r], LAMBDA s1 :
             Let(AddressAnchored(r[1]), LAMBDA anchored :
                 IF anchored = 0 THEN Outcome(s1, INVALID)
                 ELSE Let(AddressTypeOf(AddressPrefixes[anchored]), LAMBDA type :
                          Outcome([s1 EXCEPT !.complete = TRUE, !.collected_segments = 1,
                                             !.address_type = IF type # None THEN type ELSE @],
                                  COMPLETE)))))

BitcoinAddressQR_getAddress(self) == self.address

BitcoinAddressQR_getAddressType(self) ==
    IF self.address # None
    THEN (IF self.address_type # None THEN self.address_type ELSE Some("Unknown"))
    ELSE None

\* ------------------------------------------------------------------------
\* SettingsQR
\* ------------------------------------------------------------------------
\* A dict is a function.  A value of self.settings is a text read from the
\* frame ([str |-> text]) or a category ([dict |-> function from the new key
\* names to the translated values]).
EmptyDict == <<>>
DictSet(d, k, v) == [x \in DOMAIN d \cup {k} |-> IF x = k THEN v ELSE d[x]]
DictDel(d, k) == [x \in DOMAIN d \ {k} |-> d[x]]
StrValue(text) == [isdict |-> FALSE, str |-> text, dict |-> EmptyDict]
DictValue(d) == [isdict |-> TRUE, str |-> <<>>, dict |-> d]

SettingsQRInit ==
    [collected_segments |-> 0, complete |-> FALSE, settings |-> EmptyDict,
     config_name |-> None]

K_type == <<"t","y","p","e">>
K_version == <<"v","e","r","s","i","o","n">>
K_name == <<"n","a","m","e">>
K_wallet == <<"w","a","l","l","e","t">>
K_features == <<"f","e","a","t","u","r","e","s">>
K_coord == <<"c","o","o","r","d">>
K_xpub == <<"x","p","u","b">>
K_sigs == <<"s","i","g","s">>
K_scripts == <<"s","c","r","i","p","t","s">>
K_xp_det == <<"x","p","_","d","e","t">>
K_passphrase == <<"p","a","s","s","p","h","r","a","s","e">>
K_priv_warn == <<"p","r","i","v","_","w","a","r","n">>
K_dire_warn == <<"d","i","r","e","_","w","a","r","n">>

\* the abbreviation tables; the values name the constants of
\* SettingsConstants and SeedConstants
map_abbreviated_enable ==
    [x \in {<<"0">>, <<"1">>, <<"2">>} |->
        IF x = <<"0">> THEN "OPTION__DISABLED"
        ELSE IF x = <<"1">> THEN "OPTION__ENABLED" ELSE "OPTION__PROMPT"]
map_abbreviated_sig_types ==
    [x \in {<<"s">>, <<"m">>} |-> IF x = <<"s">> THEN "SINGLE_SIG" ELSE "MULTISIG"]
map_abbreviated_scripts ==
    [x \in {<<"n","a">>, <<"n","e">>, <<"t","r">>, <<"c","u">>} |->
        IF x = <<"n","a">> THEN "NATIVE_SEGWIT"
        ELSE IF x = <<"n","e">> THEN "NESTED_SEGWIT"
        ELSE IF x = <<"t","r">> THEN "TAPROOT" ELSE "CUSTOM_DERIVATION"]
map_abbreviated_coordinators ==
    [x \in {<<"b","w">>, <<"s","w">>, <<"s","d">>} |->
        IF x = <<"b","w">> THEN "COORDINATOR__BLUE_WALLET"
        ELSE IF x = <<"s","w">> THEN "COORDINATOR__SPARROW"
        ELSE "COORDINATOR__SPECTER_DESKTOP"]

\* the loop over segment.split(" ") from entry i on: the settings after it,
\* and whether it ran to its end (an entry without "=" raises IndexError)
RECURSIVE SettingsQR_parseEntries(_, _, _)
SettingsQR_parseEntries(entries, i, settings) ==
    IF i > Len(entries) THEN [ok |-> TRUE, settings |-> settings]
    ELSE LET kv == Split(entries[i], "=")
         IN  IF Len(kv) < 2 THEN [ok |-> FALSE, settings |-> settings]
             ELSE SettingsQR_parseEntries(entries, i + 1,
                      DictSet(settings, Strip(kv[1]), StrValue(Strip(kv[2]))))

\* the replacement with a fault: the text is left as it is.  C16 must tell
\* this from the real one.
ReplaceUnderscores_none(text) == text

\* str.replace("_", " ")
ReplaceUnderscores(text) == [i \in 1..Len(text) |-> IF text[i] = "_" THEN " " ELSE text[i]]

\* convert_abbreviated_value with a fault: a value without an entry in the
\* table is moved under the category as it is.  C17 must tell this from the
\* real one.
convert_abbreviated_value_unmapped(settings, category, key, abbreviation_map, is_list, new_key_name) ==
    IF key \notin DOMAIN settings THEN settings
    ELSE LET deleted == DictDel(settings, key)
             withcat == IF category \in DOMAIN deleted THEN deleted
                        ELSE DictSet(deleted, category, DictValue(EmptyDict))
         IN  DictSet(withcat, category,
                     DictValue(DictSet(withcat[category].dict, new_key_name,
                                       [list |-> is_list, v |-> <<settings[key].str>>])))

\* convert_abbreviated_value: the settings after the call
convert_abbreviated_value(settings, category, key, abbreviation_map, is_list, new_key_name) ==
    IF key \notin DOMAIN settings THEN settings
    ELSE LET value == settings[key].str
             values == Split(value, ",")
             mapped == IF ~is_list THEN value \in DOMAIN abbreviation_map
                       ELSE \A i \in 1..Len(values) : values[i] \in DOMAIN abbreviation_map
             new_value == IF ~is_list
                          THEN [list |-> FALSE, v |-> <<abbreviation_map[value]>>]
                          ELSE [list |-> TRUE,
                                v |-> [i \in 1..Len(values) |-> abbreviation_map[values[i]]]]
             deleted == DictDel(settings, key)
             withcat == IF category \in DOMAIN deleted THEN deleted
                        ELSE DictSet(deleted, category, DictValue(EmptyDict))
         IN  IF settings[key].isdict \/ ~mapped THEN settings
             \* item assignment on a text raises TypeError, caught after the del
             ELSE IF ~withcat[category].isdict THEN deleted
             ELSE DictSet(withcat, category,
                          DictValue(DictSet(withcat[category].dict, new_key_name, new_value)))

\* the version check with a fault: every version is gone on with.  C15 must
\* tell this check from the real one.
SettingsQR_versionSupported_any(version) == TRUE

\* if not version or int(version) != 1: the version the code goes on with
SettingsQR_versionSupported(version) ==
    /\ version # None
    /\ version[1] # <<>>
    /\ PyInt(version[1]) = Some(1)

SettingsQR_add(self, segment) ==
    LET parsed == SettingsQR_parseEntries(Split(segment, " "), 1, EmptyDict)
        s1 == [self EXCEPT !.settings = parsed.settings]
        notype == DictDel(parsed.settings, K_type)
        version == IF K_version \in DOMAIN notype THEN Some(notype[K_version].str) ELSE None
        popped == DictDel(notype, K_version)
        s2 == [self EXCEPT !.settings = popped]
        name == IF K_name \in DOMAIN popped THEN Some(popped[K_name].str) ELSE None
        config_name == IF name # None /\ name[1] # <<>>
                       THEN Some(ReplaceUnderscores(name[1])) ELSE name
        c0 == DictDel(popped, K_name)
        c1 == convert_abbreviated_value(c0, K_wallet, K_coord, map_abbreviated_coordinators,
                                        TRUE, "coordinators")
        c2 == convert_abbreviated_value(c1, K_features, K_xpub, map_abbreviated_enable,
                                        FALSE, "xpub_export")
        c3 == convert_abbreviated_value(c2, K_features, K_sigs, map_abbreviated_sig_types,
                                        TRUE, "sig_types")
        c4 == convert_abbreviated_value(c3, K_features, K_scripts, map_abbreviated_scripts,
                                        TRUE, "script_types")
        c5 == convert_abbreviated_value(c4, K_features, K_xp_det, map_abbreviated_enable,
                                        FALSE, "show_xpub_details")
        c6 == convert_abbreviated_value(c5, K_features, K_passphrase, map_abbreviated_enable,
                                        FALSE, "passphrase")
        c7 == convert_abbreviated_value(c6, K_features, K_priv_warn, map_abbreviated_enable,
                                        FALSE, "show_privacy_warnings")
        c8 == convert_abbreviated_value(c7, K_features, K_dire_warn, map_abbreviated_enable,
                                        FALSE, "show_dire_warnings")
    IN  IF ~parsed.ok THEN Outcome(s1, INVALID)
        ELSE IF ~SettingsQR_versionSupported(version) THEN Outcome(s2, INVALID)
        ELSE Outcome([self EXCEPT !.settings = c8, !.config_name = config_name,
                                  !.complete = TRUE, !.collected_segments = 1], COMPLETE)

\* ------------------------------------------------------------------------
\* URDecoder (seedsigner.helpers.ur2), the external fountain-frame decoder:
\* it is complete once it has received URPartsNeeded different frames
\* ------------------------------------------------------------------------
URPartsNeeded == 2
URDecoderInit == {}
URDecoder_receive_part(self, part) == self \cup {part}
URDecoder_is_complete(self) == Cardinality(self) >= URPartsNeeded

\* ------------------------------------------------------------------------
\* DecodeQR, the session
\* ------------------------------------------------------------------------
\* DecodeQR.__init__(wordlist=Wordlist)
DecodeQRInit ==
    [complete |-> FALSE,
     qr_type |-> NoType,
     ur_decoder |-> URDecoderInit,
     specter_qr |-> SegmentsInit,
     legacy_ur |-> SegmentsInit,
     base64_qr |-> SingleInit,
     base43_qr |-> SingleInit,
     address_qr |-> AddressQRInit,
     specter_wallet_qr |-> SegmentsInit,
     settings_qr |-> SettingsQRInit,
     wordlist |-> Wordlist,
     seedqr |-> SeedQRInit]

\* the part of addString after the type check: the dispatch on self.qr_type
\* (self.qr_type is already the locked type)
\* the completion flag with a fault: a call that does not answer COMPLETE
\* clears it.  C25 must tell this flag from the real one.
DecodeQR_done_forget(self, rt) == rt = COMPLETE

\* the completion flag with a fault: PART_COMPLETE sets it too.  C24 must
\* tell this flag from the real one.
DecodeQR_done_onProgress(self, rt) ==
    IF rt \in {COMPLETE, PART_COMPLETE} THEN TRUE ELSE self.complete

DecodeQR_done(self, rt) == IF rt = COMPLETE THEN TRUE ELSE self.complete

DecodeQR_dispatch(self, qr_str) ==
    IF self.qr_type = PSBTUR2
    THEN Let(URDecoder_receive_part(self.ur_decoder, qr_str), LAMBDA d :
             IF URDecoder_is_complete(d)
             THEN Outcome([self EXCEPT !.ur_decoder = d, !.complete = TRUE], COMPLETE)
             ELSE Outcome([self EXCEPT !.ur_decoder = d], PART_COMPLETE))
    ELSE IF self.qr_type = PSBTSPECTER
    THEN Let(SpecterDecodePSBTQR_add(self.specter_qr, qr_str), LAMBDA o :
             Outcome([self EXCEPT !.specter_qr = o.self,
                                  !.complete = DecodeQR_done(self, o.rt)], o.rt))
    ELSE IF self.qr_type = PSBTURLEGACY
    THEN Let(LegacyURDecodeQR_add(self.legacy_ur, qr_str), LAMBDA o :
             Outcome([self EXCEPT !.legacy_ur = o.self,
                                  !.complete = DecodeQR_done(self, o.rt)], o.rt))
    ELSE IF self.qr_type = PSBTBASE64
    THEN Let(Base64DecodeQR_add(self.base64_qr, qr_str), LAMBDA o :
             Outcome([self EXCEPT !.base64_qr = o.self,
                                  !.complete = DecodeQR_done(self, o.rt)], o.rt))
    ELSE IF self.qr_type = PSBTBASE43
    THEN Let(Base43DecodeQR_add(self.base43_qr, qr_str), LAMBDA o :
             Outcome([self EXCEPT !.base43_qr = o.self,
                                  !.complete = DecodeQR_done(self, o.rt)], o.rt))
    ELSE IF self.qr_type \in {SEEDSSQR, SEEDMNEMONIC, SEED4LETTERMNEMONIC}
    THEN Let(SeedQR_add(self.seedqr, self.wordlist, qr_str, self.qr_type), LAMBDA o :
             Outcome([self EXCEPT !.seedqr = o.self,
                                  !.complete = DecodeQR_done(self, o.rt)], o.rt))
    ELSE IF self.qr_type = SETTINGS
    THEN Let(SettingsQR_add(self.settings_qr, qr_str), LAMBDA o :
             Outcome([self EXCEPT !.settings_qr = o.self,
                                  !.complete = DecodeQR_done(self, o.rt)], o.rt))
    ELSE IF self.qr_type = BITCOINADDRESSQR
    THEN Let(BitcoinAddressQR_add(self.address_qr, qr_str), LAMBDA o :
             Outcome([self EXCEPT !.address_qr = o.self,
                                  !.complete = DecodeQR_done(self, o.rt)], o.rt))
    ELSE IF self.qr_type = SPECTERWALLETQR
    THEN Let(SpecterDecodeWalletQR_add(self.specter_wallet_qr, qr_str), LAMBDA o :
             Outcome([self EXCEPT !.specter_wallet_qr = o.self,
                                  !.complete = DecodeQR_done(self, o.rt)], o.rt))
    ELSE Outcome(self, INVALID)

\* the types whose frames are handed to a sub-decoder
DispatchedTypes ==
    {PSBTUR2, PSBTSPECTER, PSBTURLEGACY, PSBTBASE64, PSBTBASE43, SEEDSSQR, SETTINGS,
     SEEDMNEMONIC, SEED4LETTERMNEMONIC, BITCOINADDRESSQR, SPECTERWALLETQR}

\* DecodeQR.addString with a fault: every frame sets qr_type to its own
\* classification and is dispatched.  C1 must tell this session from the real
\* one.
DecodeQR_addString_relock(self, qr_str, frame_type) ==
    DecodeQR_dispatch([self EXCEPT !.qr_type = frame_type], qr_str)

\* DecodeQR.addString with a fault: every dispatched frame is also counted
\* by the base64 decoder.  C30 must tell this session from the real one.
DecodeQR_addString_countsBase64(self, qr_str, frame_type) ==
    IF self.qr_type # NoType /\ self.qr_type # frame_type
    THEN Outcome(self, RAISE_TYPE_CHANGE)
    ELSE Let(DecodeQR_dispatch(IF self.qr_type = NoType
                               THEN [self EXCEPT !.qr_type = frame_type] ELSE self, qr_str),
             LAMBDA o : Outcome([o.self EXCEPT !.base64_qr.collected_segments = 1], o.rt))

\* DecodeQR.addString for a text qr_str whose classification is frame_type
DecodeQR_addString(self, qr_str, frame_type) ==
    IF self.qr_type # NoType /\ self.qr_type # frame_type
    THEN Outcome(self, RAISE_TYPE_CHANGE)
    ELSE DecodeQR_dispatch(IF self.qr_type = NoType
                           THEN [self EXCEPT !.qr_type = frame_type] ELSE self, qr_str)

\* --- accessors: [raised, value] ---
Returned(v) == [raised |-> FALSE, value |-> v]
Raised == [raised |-> TRUE, value |-> None]

\* UR_PSBT.from_cbor(self.ur_decoder.result_message().cbor).data, external
URResult(ur_decoder) == [ur_parts |-> ur_decoder]

DecodeQR_getDataPSBT(self) ==
    IF self.complete
    THEN IF self.qr_type = PSBTUR2 THEN Returned(Some(URResult(self.ur_decoder)))
         ELSE IF self.qr_type = PSBTSPECTER THEN SpecterDecodePSBTQR_getData(self.specter_qr)
         ELSE IF self.qr_type = PSBTURLEGACY THEN LegacyURDecodeQR_getData(self.legacy_ur)
         ELSE IF self.qr_type = PSBTBASE64 THEN Returned(Base64DecodeQR_getData(self.base64_qr))
         ELSE IF self.qr_type = PSBTBASE43 THEN Returned(Base43DecodeQR_getData(self.base43_qr))
         ELSE Returned(None)
    ELSE Returned(None)

DecodeQR_getSeedPhrase(self) == Returned(SeedQR_getSeedPhrase(self.seedqr))
DecodeQR_get_settings_data(self) == Returned(self.settings_qr.settings)
DecodeQR_get_settings_config_name(self) == Returned(self.settings_qr.config_name)
DecodeQR_getAddress(self) == Returned(BitcoinAddressQR_getAddress(self.address_qr))
DecodeQR_getAddressType(self) == Returned(BitcoinAddressQR_getAddressType(self.address_qr))
DecodeQR_getWalletDescriptor(self) ==
    SpecterDecodeWalletQR_getWalletDescriptor(self.specter_wallet_qr)
DecodeQR_isComplete(self) == self.complete

\* b2a_base64 with a fault: the text is ended by a carriage return and a
\* newline.  C20 must tell this from the real one.
b2a_base64_crlf(data) == b64encode(data) \o <<"\r", "\n">>

\* b2a_base64: the base64 text of the bytes, ended by a newline
b2a_base64(data) == b64encode(data) \o <<"\n">>

\* DecodeQR.getBase64PSBT.  The bytes of the UR formats come from the
\* external unwrapping and are known only by their origin; so is their
\* base64 text.  b2a_base64(None) raises TypeError.
DecodeQR_getBase64PSBT(self) ==
    IF self.complete
    THEN Let(DecodeQR_getDataPSBT(self), LAMBDA data :
             IF data.raised \/ data.value = None THEN Raised
             ELSE IF self.qr_type \in {PSBTUR2, PSBTURLEGACY}
             THEN Returned(Some([base64_of |-> data.value[1]]))
             ELSE Let(b2a_base64(data.value[1]), LAMBDA b64_psbt :
                      Returned(Some(IF b64_psbt[Len(b64_psbt)] = "\n"
                                    THEN SubSeq(b64_psbt, 1, Len(b64_psbt) - 1)
                                    ELSE b64_psbt))))
    ELSE Returned(None)

\* estimated_percent_complete() of the external fountain-frame decoder, times
\* 100: 100 once the decoder is complete, else the share of the parts needed
URDecoder_estimated_percent(ur_decoder) ==
    IF URDecoder_is_complete(ur_decoder) THEN 100
    ELSE (Cardinality(ur_decoder) * 100) \div URPartsNeeded

\* int((collected_segments / total_segments) * 100): the float quotient is
\* truncated; for the one-digit totals of the frames that is the floor of
\* 100 * collected / total.  A total of 0 raises ZeroDivisionError.
PercentOf(collected_segments, total_segments) ==
    IF total_segments = 0 THEN Raised
    ELSE Returned((collected_segments * 100) \div total_segments)

\* DecodeQR.getPercentComplete
DecodeQR_getPercentComplete(self) ==
    IF self.qr_type = PSBTUR2 THEN Returned(URDecoder_estimated_percent(self.ur_decoder))
    ELSE IF self.qr_type = PSBTSPECTER
    THEN IF self.specter_qr.total_segments = None THEN Returned(0)
         ELSE PercentOf(self.specter_qr.collected_segments, self.specter_qr.total_segments[1])
    ELSE IF self.qr_type = PSBTURLEGACY
    THEN IF self.legacy_ur.total_segments = None THEN Returned(0)
         ELSE PercentOf(self.legacy_ur.collected_segments, self.legacy_ur.total_segments[1])
    ELSE IF self.qr_type = PSBTBASE64
    THEN IF self.base64_qr.complete THEN Returned(100) ELSE Returned(0)
    ELSE IF self.qr_type = PSBTBASE43
    THEN IF self.base43_qr.complete THEN Returned(100) ELSE Returned(0)
    ELSE Returned(0)

\* ------------------------------------------------------------------------
\* The state machine: one session, frames submitted one after the other
\* ------------------------------------------------------------------------
VARIABLES
    session,   \* the DecodeQR object
    last,      \* what the last addString call returned or raised
    fatal,     \* whether some call so far raised one of the fatal errors
    accepted,  \* the frames a reassembler has answered PART_COMPLETE or COMPLETE
    given,     \* the text a static method is called on, on its own
    answer     \* the static method called last on it, and what it gave

vars == <<session, last, fatal, accepted, given, answer>>

NoCall == "none"
NoResult == [op |-> NoCall, out |-> None]

\* a session nothing has been submitted to
Fresh ==
    /\ session = DecodeQRInit
    /\ last = NoCall
    /\ fatal = FALSE
    /\ accepted = {}

Init ==
    /\ Fresh
    /\ given = <<>>
    /\ answer = NoResult

ReassemblerTypes == {PSBTSPECTER, PSBTURLEGACY, SPECTERWALLETQR}

\* addString(qr_str) with a text
addString(qr_str) ==
    /\ session' = DecodeQR_addString(session, qr_str, FrameType[qr_str]).self
    /\ last' = DecodeQR_addString(session, qr_str, FrameType[qr_str]).rt
    /\ fatal' = (fatal \/ last' \in FatalRaises)
    /\ accepted' = IF session'.qr_type \in ReassemblerTypes
                      /\ last' \in {PART_COMPLETE, COMPLETE}
                   THEN accepted \cup {qr_str} ELSE accepted
    /\ UNCHANGED <<given, answer>>

\* addString(None)
addNone ==
    /\ last' = FALSE_STATUS
    /\ UNCHANGED <<session, fatal, accepted, given, answer>>

Next ==
    \/ \E qr_str \in Frames : addString(qr_str)
    \/ addNone

Spec == Init /\ [][Next]_vars

\* ------------------------------------------------------------------------
\* The static methods of DecodeQR called on their own, on a text
\* ------------------------------------------------------------------------
\* the longest text handed to base43Decode
MaxB43Len == 3
\* characters of those texts: the zero character, two other characters of
\* the alphabet and one outside it
B43TextChars == {"0", "1", ":", "a"}
RECURSIVE TextsOver(_, _)
TextsOver(chars, n) ==
    IF n = 0 THEN {<<>>}
    ELSE LET shorter == TextsOver(chars, n - 1)
         IN  shorter \cup { t \o <<c>> : t \in { u \in shorter : Len(u) = n - 1 }, c \in chars }
\* short texts, and the base43 PSBTs as they are and with one character
\* outside the alphabet appended
B43Texts ==
    TextsOver(B43TextChars, MaxB43Len)
    \cup Base43Frames \cup { f \o <<"a">> : f \in Base43Frames }

InitBase43 ==
    /\ Fresh
    /\ given \in B43Texts
    /\ answer = NoResult

\* DecodeQR.base43Decode(given)
callBase43Decode ==
    /\ answer' = [op |-> "base43Decode", out |-> base43Decode(given)]
    /\ UNCHANGED <<session, last, fatal, accepted, given>>

\* DecodeQR.isBase43PSBT(given)
callIsBase43PSBT ==
    /\ answer' = [op |-> "isBase43PSBT", out |-> isBase43PSBT(given)]
    /\ UNCHANGED <<session, last, fatal, accepted, given>>

NextBase43 ==
    \/ callBase43Decode
    \/ callIsBase43PSBT

SpecBase43 == InitBase43 /\ [][NextBase43]_vars

\* SeedQR.add in its numeric mode, on a decoder just constructed
SeedGroupCounts == {11, 12, 13, 24}
SeedTails == { <<>>, <<"1">>, <<"1","2">>, <<"0","0","1">> }
SeedOddGroups == { <<"-","0","0","1">>, <<"+","0","0","1">>, <<"9","9","9","9">>,
                   <<"0","0","x","1">> }
\* whole groups followed by fewer than four more characters, and twelve
\* groups one of which is signed, out of range or not a number
SeedQRTexts ==
    { Groups(Indices(n)) \o t : n \in SeedGroupCounts, t \in SeedTails }
    \cup { SubSeq(SeedNumeric12, 1, 4 * (k - 1)) \o g
           \o SubSeq(SeedNumeric12, 4 * k + 1, Len(SeedNumeric12)) :
           k \in 1..12, g \in SeedOddGroups }

InitSeedQR ==
    /\ Fresh
    /\ given \in SeedQRTexts
    /\ answer = NoResult

\* SeedQR(wordlist).add(given, QRType.SEEDSSQR)
callSeedQRAdd ==
    /\ answer' = [op |-> "SeedQR.add",
                  out |-> SeedQR_add(SeedQRInit, Wordlist, given, SEEDSSQR)]
    /\ UNCHANGED <<session, last, fatal, accepted, given>>

NextSeedQR == callSeedQRAdd

SpecSeedQR == InitSeedQR /\ [][NextSeedQR]_vars

\* SettingsQR.add on a decoder just constructed.  A text is "type=settings"
\* followed by its version entries, its name entry and its other entries.
SettingsVersionParts == {
    <<>>,
    <<" ","v","e","r","s","i","o","n","=","1">>,
    <<" ","v","e","r","s","i","o","n","=","2">>,
    <<" ","v","e","r","s","i","o","n","=","x">>,
    <<" ","v","e","r","s","i","o","n","=","0","1">>,
    <<" ","v","e","r","s","i","o","n","=">>,
    <<" ","v","e","r","s","i","o","n","=","1"," ","v","e","r","s","i","o","n","=","2">>,
    <<" ","v","e","r","s","i","o","n","=","2"," ","v","e","r","s","i","o","n","=","1">>,
    <<" ","v","e","r","s","i","o","n","=","-","1">> }
SettingsNameParts == {
    <<>>,
    <<" ","n","a","m","e","=","M","y","_","W","a","l","l","e","t">> }
SettingsOptionParts == {
    <<>>,
    <<" ","x","p","u","b","=","1">>,
    <<" ","x","p","u","b","=","9"," ","s","i","g","s","=","s",",","m">>,
    <<" ","c","o","o","r","d","=","b","w",",","z","z"," ","x","p","_","d","e","t","=","2">>,
    <<" ","x","p","u","b","=","0"," ","x","p","u","b","=","2">>,
    <<" ","n","o","v","a","l","u","e">>,
    <<" ","c","o","o","r","d","=","s","w",",","s","d"," ","s","c","r","i","p","t","s","=","n","a",",","t","r"," ","p","a","s","s","p","h","r","a","s","e","=","2"," ","p","r","i","v","_","w","a","r","n","=","0"," ","d","i","r","e","_","w","a","r","n","=","1">> }
SettingsTexts ==
    { <<"t","y","p","e","=","s","e","t","t","i","n","g","s">> \o v \o n \o o :
        v \in SettingsVersionParts, n \in SettingsNameParts, o \in SettingsOptionParts }

InitSettings ==
    /\ Fresh
    /\ given \in SettingsTexts
    /\ answer = NoResult

\* SettingsQR().add(given)
callSettingsQRAdd ==
    /\ answer' = [op |-> "SettingsQR.add", out |-> SettingsQR_add(SettingsQRInit, given)]
    /\ UNCHANGED <<session, last, fatal, accepted, given>>

NextSettings == callSettingsQRAdd

SpecSettings == InitSettings /\ [][NextSettings]_vars

\* DecodeQR.SegmentType on a text: the frames, and texts that more than one
\* of its checks accept
OverlapTexts ==
    { URCryptoPrefix \o SeedNumeric12,
      URBytesPrefix \o TypeSettings,
      <<"p","1","o","f","2"," ">> \o SeedNumeric12,
      <<"p","1","o","f","2"," ">> \o <<"{">> \o SeedNumeric12,
      <<"c","H","N","i","d","P","8","A">> \o SeedNumeric12,
      LabelOpen \o DescriptorColon \o TypeSettings,
      LabelOpen \o DescriptorColon \o SeedNumeric12,
      SeedNumeric12 \o <<" ">> \o TypeSettings,
      <<"1">> \o SeedNumeric12,
      BitcoinURI \o TypeSettings,
      BitcoinURI \o SeedNumeric12,
      Wordlist[3] \o <<" ">> \o Wordlist[3],
      <<"?">> \o TypeSettings }
ClassifiedTexts == Frames \cup OverlapTexts

InitSegmentType ==
    /\ Fresh
    /\ given \in ClassifiedTexts
    /\ answer = NoResult

\* DecodeQR.SegmentType(given, wordlist)
callSegmentType ==
    /\ answer' = [op |-> "SegmentType", out |-> SegmentType(given, Wordlist)]
    /\ UNCHANGED <<session, last, fatal, accepted, given>>

NextSegmentType == callSegmentType

SpecSegmentType == InitSegmentType /\ [][NextSegmentType]_vars

\* BitcoinAddressQR.add on a decoder just constructed.  A text is a lead, a
\* head (an address prefix or something that is none), a run of body
\* characters and a tail.
AddressLeads == { <<>>, BitcoinURI, <<"?">> }
AddressHeads == { <<"1">>, <<"2">>, <<"3">>, <<"m">>, <<"n">>, <<"b","c","1">>, <<"t","b","1">>,
                  <<"4">>, <<"b","c">>, <<"O">> }
AddressRuns == { AddressBodyMin - 1, AddressBodyMin, AddressBodyMin + 1,
                 AddressBodyMax, AddressBodyMax + 1 }
AddressTails == { <<>>, <<"?">>, <<"I">> }
AddressTexts ==
    { l \o h \o [i \in 1..n |-> "q"] \o t :
        l \in AddressLeads, h \in AddressHeads, n \in AddressRuns, t \in AddressTails }

InitAddress ==
    /\ Fresh
    /\ given \in AddressTexts
    /\ answer = NoResult

\* BitcoinAddressQR().add(given)
callAddressAdd ==
    /\ answer' = [op |-> "BitcoinAddressQR.add",
                  out |-> BitcoinAddressQR_add(AddressQRInit, given)]
    /\ UNCHANGED <<session, last, fatal, accepted, given>>

NextAddress == callAddressAdd

SpecAddress == InitAddress /\ [][NextAddress]_vars

\* ------------------------------------------------------------------------
\* Properties.  They are stated over every frame that could be submitted
\* next: Call(f) is what addString(f) answers in the current state and the
\* session it leaves, so a property of Call(f) in every reachable state is
\* a property of every call of every run.
\* ------------------------------------------------------------------------
Call(f) == DecodeQR_addString(session, f, FrameType[f])

PSBTTypes == {PSBTUR2, PSBTSPECTER, PSBTURLEGACY, PSBTBASE64, PSBTBASE43}
SeedTypes == {SEEDSSQR, SEEDMNEMONIC, SEED4LETTERMNEMONIC}
Progress == {PART_COMPLETE, COMPLETE}

\* the reassembler of a session for a reassembler type
Reassembler(self, type) ==
    IF type = PSBTSPECTER THEN self.specter_qr
    ELSE IF type = PSBTURLEGACY THEN self.legacy_ur
    ELSE self.specter_wallet_qr

\* what that reassembler reads off a frame: total, index and fragment
ParsedOf(type) ==
    IF type = PSBTSPECTER THEN SpecterParsed
    ELSE IF type = PSBTURLEGACY THEN LegacyParsed
    ELSE WalletParsed

\* the number of filled slots
Filled(segments) == Cardinality({ i \in 1..Len(segments) : segments[i] # None })

\* frame f belongs to the set reassembler r is collecting (or r is fresh),
\* and its index is one of 1..N
InSet(r, p) ==
    /\ p.total # None
    /\ p.cur # None
    /\ r.total_segments \in {None, p.total}
    /\ p.cur[1] \in 1..p.total[1]

\* the slot of such a frame is filled
SlotFilled(r, p) == r.total_segments # None /\ r.segments[p.cur[1]] # None

\* C1: the first frame locks qr_type to its classification; a later frame of
\* another classification makes addString raise the type-change error without
\* reaching a sub-decoder (the session is left as it was); qr_type never
\* changes once it is set.
C1_TypeLocked ==
    \A f \in Frames :
        Let(Call(f), LAMBDA o :
            /\ (session.qr_type = NoType => o.self.qr_type = FrameType[f])
            /\ (session.qr_type # NoType => o.self.qr_type = session.qr_type)
            /\ ((session.qr_type # NoType /\ FrameType[f] # session.qr_type)
                => (o.rt = RAISE_TYPE_CHANGE /\ o.self = session)))

\* a Specter PSBT session holding one fragment has just refused a frame of
\* another type
C1_Witness ==
    /\ last = RAISE_TYPE_CHANGE
    /\ session.qr_type = PSBTSPECTER
    /\ session.specter_qr.collected_segments = 1

\* C2: in each of the three reassemblers total_segments, once set, keeps its
\* value; a frame of the session's type that reports another total makes
\* addString raise 'segment total changed unexpectedly' and changes nothing.
C2_TotalFixed ==
    \A f \in Frames :
        Let(Call(f), LAMBDA o :
            /\ \A t \in ReassemblerTypes :
                   Reassembler(session, t).total_segments # None
                   => Reassembler(o.self, t).total_segments
                          = Reassembler(session, t).total_segments
            /\ (/\ session.qr_type \in ReassemblerTypes
                /\ FrameType[f] = session.qr_type
                /\ Reassembler(session, session.qr_type).total_segments # None
                /\ ParsedOf(session.qr_type)[f].total
                       # Reassembler(session, session.qr_type).total_segments)
               => (o.rt = RAISE_TOTAL_CHANGED /\ o.self = session))

\* a wallet session that expects two segments and holds one has just refused
\* a frame reporting another total
C2_Witness ==
    /\ last = RAISE_TOTAL_CHANGED
    /\ session.qr_type = SPECTERWALLETQR
    /\ session.specter_wallet_qr.total_segments = Some(2)
    /\ session.specter_wallet_qr.collected_segments = 1

\* C3 (refuted): every accessor gives its empty result unless the session is
\* complete and locked to the accessor's type.  (An accessor that raises is
\* counted as giving nothing.)
C3_AccessorsGuarded ==
    /\ ~(session.complete /\ session.qr_type \in PSBTTypes)
       => DecodeQR_getDataPSBT(session).value = None
    /\ ~(session.complete /\ session.qr_type \in SeedTypes)
       => DecodeQR_getSeedPhrase(session).value = <<>>
    /\ ~(session.complete /\ session.qr_type = SPECTERWALLETQR)
       => DecodeQR_getWalletDescriptor(session).value = None
    /\ ~(session.complete /\ session.qr_type = BITCOINADDRESSQR)
       => /\ DecodeQR_getAddress(session).value = None
          /\ DecodeQR_getAddressType(session).value = None
    /\ ~(session.complete /\ session.qr_type = SETTINGS)
       => /\ DecodeQR_get_settings_data(session).value = EmptyDict
          /\ DecodeQR_get_settings_config_name(session).value = None

\* C4 (refuted): once addString has raised a fatal error, no later call
\* answers PART_COMPLETE or COMPLETE and none makes the session complete.
C4_FatalTerminates ==
    [][fatal => (last' \notin Progress /\ (session'.complete => session.complete))]_vars

\* C5: in each reassembler a frame of the set being collected whose slot is
\* filled is answered PART_EXISTING and changes nothing, whatever fragment it
\* carries.
C5_ExistingUnchanged ==
    \A f \in Frames :
        (session.qr_type \in ReassemblerTypes /\ FrameType[f] = session.qr_type)
        => Let(Reassembler(session, session.qr_type), LAMBDA r :
           Let(ParsedOf(session.qr_type)[f], LAMBDA p :
               (InSet(r, p) /\ SlotFilled(r, p))
               => (Call(f).rt = PART_EXISTING /\ Call(f).self = session)))

\* a Legacy UR session holding slot 1 of 2 has just answered PART_EXISTING,
\* and there is a frame for that slot carrying another fragment
C5_Witness ==
    /\ last = PART_EXISTING
    /\ session.qr_type = PSBTURLEGACY
    /\ session.legacy_ur.total_segments = Some(2)
    /\ session.legacy_ur.collected_segments = 1
    /\ session.legacy_ur.segments[1] # None
    /\ \E f \in LegacyFrames :
           /\ InSet(session.legacy_ur, LegacyParsed[f])
           /\ LegacyParsed[f].cur = Some(1)
           /\ Some(LegacyParsed[f].payload) # session.legacy_ur.segments[1]

\* C6: in a Specter PSBT or Legacy UR reassembler a frame of the set being
\* collected is answered PART_EXISTING when its slot is filled, COMPLETE when
\* it fills the last empty slot and PART_COMPLETE when it fills another one;
\* COMPLETE is answered only by the call that completes the reassembler,
\* which then stays complete and answers PART_EXISTING.
C6_CompleteOnce ==
    \A f \in Frames :
        (FrameType[f] \in {PSBTSPECTER, PSBTURLEGACY}
         /\ session.qr_type \in {NoType, FrameType[f]})
        => Let(Reassembler(session, FrameType[f]), LAMBDA r :
           Let(ParsedOf(FrameType[f])[f], LAMBDA p :
           Let(Call(f), LAMBDA o :
               /\ (o.rt = COMPLETE
                   => (~r.complete /\ Reassembler(o.self, FrameType[f]).complete))
               /\ (r.complete => Reassembler(o.self, FrameType[f]).complete)
               /\ (InSet(r, p)
                   => /\ (r.complete => o.rt = PART_EXISTING)
                      /\ o.rt = IF SlotFilled(r, p) THEN PART_EXISTING
                                ELSE IF Filled(r.segments) + 1 = p.total[1] THEN COMPLETE
                                ELSE PART_COMPLETE))))

\* a Specter PSBT session has just answered COMPLETE for the third of three
\* segments
C6_Witness ==
    /\ last = COMPLETE
    /\ session.qr_type = PSBTSPECTER
    /\ session.specter_qr.total_segments = Some(3)
    /\ session.specter_qr.complete
    /\ Cardinality(accepted) = 3

\* the frames accepted by the reassembler of the session carry the indices
\* 1..n
AcceptedInRange(n) ==
    \A f \in accepted : ParsedOf(session.qr_type)[f].cur[1] \in 1..n

\* the fragments of the accepted frames, joined by header index
AcceptedJoined(n) ==
    Join([i \in 1..n |->
             ParsedOf(session.qr_type)[
                 CHOOSE f \in accepted : ParsedOf(session.qr_type)[f].cur = Some(i)].payload])

\* C7: the payload of a completed Specter PSBT or Legacy UR reassembler is
\* the concatenation of the accepted fragments by header index 1..N: it
\* depends on the set of accepted frames, not on the order of their arrival
\* or on repeated frames.
C7_JoinedInOrder ==
    (/\ session.qr_type \in {PSBTSPECTER, PSBTURLEGACY}
     /\ Reassembler(session, session.qr_type).complete)
    => Let(Reassembler(session, session.qr_type).total_segments[1], LAMBDA n :
           AcceptedInRange(n)
           => Let(AcceptedJoined(n), LAMBDA joined :
                  /\ Cardinality(accepted) = n
                  /\ JoinSegments(Reassembler(session, session.qr_type).segments)
                         = Some(joined)
                  /\ DecodeQR_getDataPSBT(session)
                         = IF session.qr_type = PSBTURLEGACY
                           THEN Returned(Some(BcurUnwrap(joined)))
                           ELSE IF isBase64(joined)
                                THEN Returned(Some(a2b_base64(joined)))
                           ELSE Returned(None)))

\* a Specter PSBT session completed from three frames with the indices 1..3
\* exposes decoded bytes
C7_Witness ==
    /\ session.qr_type = PSBTSPECTER
    /\ session.complete
    /\ session.specter_qr.total_segments = Some(3)
    /\ AcceptedInRange(3)
    /\ DecodeQR_getDataPSBT(session).value # None

\* C8 (refuted): a call answered INVALID leaves the session as it was (but
\* for the type a first frame locks).
C8_InvalidChangesNothing ==
    [][last' = INVALID => [session' EXCEPT !.qr_type = session.qr_type] = session]_vars

\* a frame a fresh session accepts
WellFormed(f) == DecodeQR_addString(DecodeQRInit, f, FrameType[f]).rt \in Progress

\* C9 (refuted): after a call answered INVALID, a well-formed frame (of the
\* locked type, or of any decodable type when the first frame classified as
\* invalid) is answered with a decoder status other than INVALID.
C9_InvalidRecoverable ==
    last = INVALID
    => \A f \in Frames :
           (/\ FrameType[f] \in DispatchedTypes
            /\ session.qr_type \in {INVALIDTYPE, FrameType[f]}
            /\ WellFormed(f))
           => Call(f).rt \in {PART_COMPLETE, PART_EXISTING, COMPLETE}

\* json.loads of a text gives an object with a "descriptor" member
HasDescriptorKey(text) ==
    Let(json_loads(text), LAMBDA data : data.ok /\ data.kind = "object" /\ data.has)

\* C10 (refuted): a wallet frame that fills the last empty slot with a
\* concatenation that is no JSON object with a "descriptor" key is answered
\* INVALID and completes nothing; after such an answer no frame completes
\* the session and getWalletDescriptor returns None.
C10_WalletInvalid ==
    [][/\ (/\ session'.qr_type = SPECTERWALLETQR
           /\ Filled(session'.specter_wallet_qr.segments)
                  = Filled(session.specter_wallet_qr.segments) + 1
           /\ session'.specter_wallet_qr.total_segments
                  = Some(Filled(session'.specter_wallet_qr.segments))
           /\ ~HasDescriptorKey(JoinSegments(session'.specter_wallet_qr.segments)[1]))
          => (/\ last' = INVALID
              /\ ~session'.complete
              /\ ~session'.specter_wallet_qr.complete)
       /\ (last = INVALID /\ session.qr_type = SPECTERWALLETQR)
          => (/\ ~session'.complete
              /\ DecodeQR_getWalletDescriptor(session') = Returned(None))]_vars

\* C11 (refuted): base43Decode of a text made only of the zero character
\* gives one zero byte per character and no other byte.
C11_ZerosPreserved ==
    (/\ answer.op = "base43Decode"
     /\ given # <<>>
     /\ \A i \in 1..Len(given) : given[i] = "0")
    => answer.out = Some(Zeros(Len(given)))

\* C12: base43Decode fails exactly when some character of the text, at any
\* position, is outside the alphabet, and gives bytes otherwise;
\* isBase43PSBT answers FALSE when the decode fails or the bytes do not parse
\* as a PSBT, and TRUE otherwise.
C12_InvalidCharacter ==
    Let(\E i \in 1..Len(given) : given[i] \notin Range(B43Chars), LAMBDA forbidden :
        /\ answer.op = "base43Decode"
           => (answer.out = None <=> forbidden)
        /\ answer.op = "isBase43PSBT"
           => /\ answer.out \in BOOLEAN
              /\ forbidden => answer.out = FALSE
              /\ answer.out = TRUE
                 <=> (~forbidden /\ PSBTParses(base43Decode(given)[1])))

\* base43Decode has just failed on a base43 PSBT followed by one character
\* outside the alphabet
C12_Witness ==
    /\ answer = [op |-> "base43Decode", out |-> None]
    /\ Len(given) > MaxB43Len
    /\ SubSeq(given, 1, Len(given) - 1) \in Base43Frames
    /\ isBase43PSBT(SubSeq(given, 1, Len(given) - 1))

\* the 4-character group i (from 1) of a text of digits
GroupAt(t, i) == SubSeq(t, 4 * i - 3, 4 * i)
\* a group of four digits that name a position of the wordlist, from 0
IsWordIndex(g) ==
    /\ Len(g) = 4
    /\ \A j \in 1..4 : IsDigit(g[j])
    /\ DecVal(g) < Len(Wordlist)

\* C13 (refuted): SeedQR.add in numeric mode answers COMPLETE exactly when
\* the length of the text is a multiple of 4, every 4-character group is an
\* unsigned decimal index into the wordlist and there are 12 or 24 groups; the
\* phrase is then the words at those indices; every other text is INVALID.
C13_NumericComplete ==
    answer.op = "SeedQR.add" =>
        Let(/\ Len(given) % 4 = 0
            /\ Len(given) \div 4 \in {12, 24}
            /\ \A i \in 1..(Len(given) \div 4) : IsWordIndex(GroupAt(given, i)),
            LAMBDA wellFormed :
                /\ answer.out.rt = COMPLETE <=> wellFormed
                /\ ~wellFormed => answer.out.rt = INVALID
                /\ wellFormed =>
                       answer.out.self.seed_phrase
                       = [i \in 1..(Len(given) \div 4) |->
                              Wordlist[DecVal(GroupAt(given, i)) + 1]])

\* C14 (refuted): getSeedPhrase gives either nothing or a phrase of exactly 12
\* or 24 words; a decode answered INVALID never leaves a shorter, longer or
\* partial phrase to be read.
C14_PhraseWhole ==
    /\ ~DecodeQR_getSeedPhrase(session).raised
    /\ Len(DecodeQR_getSeedPhrase(session).value) \in {0, 12, 24}

\* the values, in order, of the entries of a settings text whose key is key
RECURSIVE ValuesOfIn(_, _)
ValuesOfIn(entries, key) ==
    IF entries = <<>> THEN <<>>
    ELSE LET kv == Split(entries[1], "=")
         IN  (IF Len(kv) >= 2 /\ Strip(kv[1]) = key THEN <<Strip(kv[2])>> ELSE <<>>)
             \o ValuesOfIn(Tail(entries), key)
ValuesOf(t, key) == ValuesOfIn(Split(t, " "), key)
\* the value a text gives a key: that of its last entry; None without one
ValueOf(t, key) ==
    IF ValuesOf(t, key) = <<>> THEN None
    ELSE Some(ValuesOf(t, key)[Len(ValuesOf(t, key))])
\* a text that denotes the integer 1
DenotesOne(v) ==
    LET ds == IF v # <<>> /\ v[1] = "+" THEN Tail(v) ELSE v
    IN  /\ ds # <<>>
        /\ \A i \in 1..Len(ds) : IsDigit(ds[i])
        /\ DecVal(ds) = 1

\* C15: SettingsQR.add answers COMPLETE only for a text with a version entry
\* that denotes the integer 1; when the version is absent, not an integer or
\* another integer it answers INVALID and the decoder is not complete.
C15_VersionOne ==
    answer.op = "SettingsQR.add" =>
        Let(ValueOf(given, K_version), LAMBDA version :
            /\ answer.out.rt = COMPLETE
               => \E i \in 1..Len(ValuesOf(given, K_version)) :
                      DenotesOne(ValuesOf(given, K_version)[i])
            /\ (version = None \/ ~DenotesOne(version[1]))
               => /\ answer.out.rt = INVALID
                  /\ ~answer.out.self.complete)

\* SettingsQR.add has answered INVALID to a text whose version is 2 and that
\* has an entry to translate
C15_Witness ==
    /\ answer.op = "SettingsQR.add"
    /\ ValueOf(given, K_version) = Some(<<"2">>)
    /\ ValueOf(given, K_xpub) = Some(<<"1">>)
    /\ answer.out.rt = INVALID
    /\ ~answer.out.self.complete

\* the keys SettingsQR.add translates: category, name under the category,
\* abbreviation table, and whether the value is a comma-separated list
SettingsKeys ==
    { [key |-> K_coord, category |-> K_wallet, name |-> "coordinators",
       map |-> map_abbreviated_coordinators, list |-> TRUE],
      [key |-> K_xpub, category |-> K_features, name |-> "xpub_export",
       map |-> map_abbreviated_enable, list |-> FALSE],
      [key |-> K_sigs, category |-> K_features, name |-> "sig_types",
       map |-> map_abbreviated_sig_types, list |-> TRUE],
      [key |-> K_scripts, category |-> K_features, name |-> "script_types",
       map |-> map_abbreviated_scripts, list |-> TRUE],
      [key |-> K_xp_det, category |-> K_features, name |-> "show_xpub_details",
       map |-> map_abbreviated_enable, list |-> FALSE],
      [key |-> K_passphrase, category |-> K_features, name |-> "passphrase",
       map |-> map_abbreviated_enable, list |-> FALSE],
      [key |-> K_priv_warn, category |-> K_features, name |-> "show_privacy_warnings",
       map |-> map_abbreviated_enable, list |-> FALSE],
      [key |-> K_dire_warn, category |-> K_features, name |-> "show_dire_warnings",
       map |-> map_abbreviated_enable, list |-> FALSE] }
\* the value has an entry in the table of the key (every element, for a list)
HasTranslation(k, v) ==
    IF k.list THEN \A i \in 1..Len(Split(v, ",")) : Split(v, ",")[i] \in DOMAIN k.map
    ELSE v \in DOMAIN k.map
Translation(k, v) ==
    IF k.list THEN [list |-> TRUE, v |-> [i \in 1..Len(Split(v, ",")) |-> k.map[Split(v, ",")[i]]]]
    ELSE [list |-> FALSE, v |-> <<k.map[v]>>]
\* a text whose entries all have a key and a value and whose version is 1
WellFormedSettings(t) ==
    /\ \A i \in 1..Len(Split(t, " ")) : Len(Split(Split(t, " ")[i], "=")) >= 2
    /\ ValueOf(t, K_version) # None
    /\ DenotesOne(ValueOf(t, K_version)[1])
\* in the mapping, every key of the text with a translation is under its
\* category with its translated name and the translation of its last value,
\* and no longer in the flat mapping
AllTranslated(t, settings) ==
    \A k \in SettingsKeys :
        Let(ValueOf(t, k.key), LAMBDA v :
            (v # None /\ HasTranslation(k, v[1]))
            => /\ k.key \notin DOMAIN settings
               /\ k.category \in DOMAIN settings
               /\ settings[k.category].isdict
               /\ k.name \in DOMAIN settings[k.category].dict
               /\ settings[k.category].dict[k.name] = Translation(k, v[1]))

SettingsExample == <<"t","y","p","e","=","s","e","t","t","i","n","g","s"," ","v","e","r","s","i","o","n","=","1"," ","n","a","m","e","=","M","y","_","W","a","l","l","e","t"," ","x","p","u","b","=","1">>

C16_WitnessRepeated ==
    /\ answer.op = "SettingsQR.add"
    /\ WellFormedSettings(given)
    /\ ValuesOf(given, K_xpub) = << <<"0">>, <<"2">> >>
    /\ answer.out.self.settings[K_features].dict["xpub_export"].v = <<"OPTION__PROMPT">>

C17_WitnessList ==
    /\ answer.op = "SettingsQR.add"
    /\ ValueOf(given, K_coord) = Some(<<"b", "w", ",", "z", "z">>)
    /\ answer.out.rt = COMPLETE
    /\ K_wallet \notin DOMAIN answer.out.self.settings

\* the twelve checks of the classifier in their order: whether the text
\* satisfies check i
ClassifierCheck(s, i) ==
    CASE i = 1 -> StartsWithCI(s, URCryptoPrefix)
      [] i = 2 -> MatchesSpecterPSBT(s)
      [] i = 3 -> StartsWithCI(s, URBytesPrefix)
      [] i = 4 -> isBase64PSBT(s)
      [] i = 5 -> PHeader(s).ok /\ ~MatchesSpecterPSBT(s)
      [] i = 6 -> MatchesLabelDescriptor(Remove(s, " "))
      [] i = 7 -> HasSeedDigits(s)
      [] i = 8 -> isBitcoinAddress(s)
      [] i = 9 -> AllTokensIn(s, Wordlist)
      [] i = 10 -> AllTokensIn(s, FourLetterWordlist(Wordlist))
      [] i = 11 -> isBase43PSBT(s)
      [] i = 12 -> Contains(s, TypeSettings)
\* the type each check stands for
ClassifierTypes ==
    << PSBTUR2, PSBTSPECTER, PSBTURLEGACY, PSBTBASE64, SPECTERWALLETQR, SPECTERWALLETQR,
       SEEDSSQR, BITCOINADDRESSQR, SEEDMNEMONIC, SEED4LETTERMNEMONIC, PSBTBASE43, SETTINGS >>
\* the earliest check from i on that the text satisfies; 0 when there is none
RECURSIVE FirstSatisfied(_, _)
FirstSatisfied(s, i) ==
    IF i > Len(ClassifierTypes) THEN 0
    ELSE IF ClassifierCheck(s, i) THEN i
    ELSE FirstSatisfied(s, i + 1)

\* C18: SegmentType gives the type of the earliest of the twelve checks the
\* text satisfies, and INVALID exactly when the text satisfies none.
C18_FirstCheckWins ==
    answer.op = "SegmentType" =>
        Let(FirstSatisfied(given, 1), LAMBDA first :
            /\ answer.out = INVALIDTYPE <=> first = 0
            /\ first # 0 => answer.out = ClassifierTypes[first])

\* SegmentType has answered SEEDSSQR to a run of 48 digits followed by
\* " type=settings", which satisfies the digit check and the settings check
C18_Witness ==
    /\ answer = [op |-> "SegmentType", out |-> SEEDSSQR]
    /\ given = SeedNumeric12 \o <<" ">> \o TypeSettings
    /\ ClassifierCheck(given, 7)
    /\ ClassifierCheck(given, 12)

\* every check is the earliest satisfied one of some text whose answer has
\* been given, and some text satisfies none
C18_WitnessAllChecks ==
    /\ answer.op = "SegmentType"
    /\ \A i \in 1..Len(ClassifierTypes) : \E t \in ClassifiedTexts : FirstSatisfied(t, 1) = i
    /\ \E t \in ClassifiedTexts : FirstSatisfied(t, 1) = 0

\* C19 (refuted): getPercentComplete always gives an integer from 0 to 100;
\* for a session of a reassembled format (Specter PSBT, legacy UR, Specter
\* wallet) it is the floor of 100 * collected / total, 0 before the first
\* frame; for a base64 or base43 session it is 100 when the session is
\* complete and 0 before.
C19_PercentFloor ==
    Let(DecodeQR_getPercentComplete(session), LAMBDA percent :
        /\ ~percent.raised
        /\ percent.value \in 0..100
        /\ \A type \in ReassemblerTypes :
               session.qr_type = type =>
                   Let(Reassembler(session, type), LAMBDA r :
                       IF r.total_segments = None \/ r.total_segments = Some(0)
                       THEN percent.value = 0
                       ELSE /\ percent.value
                               = (r.collected_segments * 100) \div r.total_segments[1]
                            /\ percent.value = 100
                               <=> r.collected_segments = r.total_segments[1])
        /\ session.qr_type \in {PSBTBASE64, PSBTBASE43}
           => percent.value = IF session.complete THEN 100 ELSE 0)

\* C20: a canonical base64 PSBT text submitted to a new session is classified
\* PSBTBASE64 and answered COMPLETE; getDataPSBT then gives the bytes the
\* text decodes to and getBase64PSBT gives the text itself; as long as the
\* session is not complete getBase64PSBT gives None.
C20_Base64RoundTrip ==
    /\ ~session.complete => DecodeQR_getBase64PSBT(session) = Returned(None)
    /\ session = DecodeQRInit =>
           \A s \in Base64Frames :
               Let(Call(s), LAMBDA out :
                   /\ FrameType[s] = PSBTBASE64
                   /\ out.rt = COMPLETE
                   /\ out.self.complete
                   /\ out.self.base64_qr.data = Some(s)
                   /\ DecodeQR_getDataPSBT(out.self) = Returned(Some(a2b_base64(s))))
    /\ (session.qr_type = PSBTBASE64 /\ session.complete)
       => /\ session.base64_qr.data # None
          /\ DecodeQR_getBase64PSBT(session) = Returned(session.base64_qr.data)
          /\ session.base64_qr.data = Some(<<"c","H","N","i","d","P","8","A">>)
             => DecodeQR_getDataPSBT(session) = Returned(Some(<<112, 115, 98, 116, 255, 0>>))
          /\ session.base64_qr.data = Some(<<"c","H","N","i","d","P","8","A","A","Q","I","=">>)
             => DecodeQR_getDataPSBT(session)
                = Returned(Some(<<112, 115, 98, 116, 255, 0, 1, 2>>))

\* a new session has answered COMPLETE to a base64 PSBT text that ends with
\* padding, and getBase64PSBT gives that text
C20_Witness ==
    /\ session.qr_type = PSBTBASE64
    /\ session.complete
    /\ last = COMPLETE
    /\ session.base64_qr.data = Some(<<"c","H","N","i","d","P","8","A","A","A","=","=">>)
    /\ DecodeQR_getBase64PSBT(session) = Returned(Some(<<"c","H","N","i","d","P","8","A","A","A","=","=">>))

\* text a is the address grammar from end to end: prefix p, then 25 to 62
\* body characters
IsAddressWith(a, p) ==
    /\ Len(a) - Len(p) \in AddressBodyMin..AddressBodyMax
    /\ SubSeq(a, 1, Len(p)) = p
    /\ \A k \in (Len(p) + 1)..Len(a) : IsAddressBodyChar(a[k])

\* some part of text t is the address grammar
HasAddress(t) ==
    \E i \in 1..Len(t), j \in 1..Len(t), k \in 1..Len(AddressPrefixes) :
        i <= j /\ IsAddressWith(SubSeq(t, i, j), AddressPrefixes[k])

\* the tag the design gives to a prefix
TagOfPrefix(p) ==
    CASE p = <<"1">> -> "P2PKH-main"
      [] p \in {<<"m">>, <<"n">>} -> "P2PKH-test"
      [] p = <<"3">> -> "P2SH-main"
      [] p = <<"2">> -> "P2SH-test"
      [] p = <<"b","c","1">> -> "Bech32-main"
      [] p = <<"t","b","1">> -> "Bech32-test"
      [] OTHER -> "Unknown"

\* C21: BitcoinAddressQR.add on a new decoder answers COMPLETE exactly when
\* some part of the text is the address grammar, and INVALID otherwise; on
\* COMPLETE the address exposed is a part of the text that is the grammar from
\* end to end (it passes the anchored check) and getAddressType is the tag of
\* its prefix; on INVALID no address and no address type are exposed.
C21_AddressTagged ==
    answer.op = "BitcoinAddressQR.add" =>
        Let(answer.out, LAMBDA o :
            /\ o.rt \in {COMPLETE, INVALID}
            /\ o.rt = COMPLETE <=> HasAddress(given)
            /\ o.rt = COMPLETE <=> o.self.complete
            /\ o.rt = COMPLETE =>
                   Let(BitcoinAddressQR_getAddress(o.self), LAMBDA address :
                       /\ address # None
                       /\ Contains(given, address[1])
                       /\ AddressAnchored(address[1]) # 0
                       /\ \E k \in 1..Len(AddressPrefixes) :
                              IsAddressWith(address[1], AddressPrefixes[k])
                       /\ \A k \in 1..Len(AddressPrefixes) :
                              IsAddressWith(address[1], AddressPrefixes[k])
                              => BitcoinAddressQR_getAddressType(o.self)
                                 = Some(TagOfPrefix(AddressPrefixes[k])))
            /\ o.rt = INVALID =>
                   /\ BitcoinAddressQR_getAddress(o.self) = None
                   /\ BitcoinAddressQR_getAddressType(o.self) = None)

\* add has answered COMPLETE to a text that holds a test-network address
\* between a URI scheme and a query mark, and exposes the address alone
C21_Witness ==
    /\ answer.op = "BitcoinAddressQR.add"
    /\ answer.out.rt = COMPLETE
    /\ given = BitcoinURI \o <<"n">> \o [i \in 1..AddressBodyMin |-> "q"] \o <<"?">>
    /\ answer.out.self.address = Some(<<"n">> \o [i \in 1..AddressBodyMin |-> "q"])
    /\ BitcoinAddressQR_getAddressType(answer.out.self) = Some("P2PKH-test")

\* add has answered INVALID to a text whose run of body characters is one
\* short of the grammar
C21_WitnessInvalid ==
    /\ answer.op = "BitcoinAddressQR.add"
    /\ answer.out.rt = INVALID
    /\ given = <<"b","c","1">> \o [i \in 1..(AddressBodyMin - 1) |-> "q"]
    /\ answer.out.self = AddressQRInit

\* C22: in every reachable state each of the three reassemblers has as many
\* slots as total_segments says once it is set (and none before), its
\* collected_segments is the number of filled slots, and
\* 0 <= collected_segments <= total_segments.
C22_CountIsFilled ==
    \A type \in ReassemblerTypes :
        Let(Reassembler(session, type), LAMBDA r :
            /\ r.collected_segments = Filled(r.segments)
            /\ r.collected_segments >= 0
            /\ IF r.total_segments = None
               THEN r.segments = <<>> /\ r.collected_segments = 0
               ELSE /\ Len(r.segments) = r.total_segments[1]
                    /\ r.collected_segments <= r.total_segments[1])

\* a reassembler collecting three segments holds two of them and has just
\* answered PART_EXISTING to a frame it already had
C22_Witness ==
    /\ session.qr_type \in ReassemblerTypes
    /\ last = PART_EXISTING
    /\ Let(Reassembler(session, session.qr_type), LAMBDA r :
           /\ r.total_segments = Some(MaxTotal)
           /\ r.collected_segments = MaxTotal - 1
           /\ Filled(r.segments) = MaxTotal - 1)

\* the value of a sequence of digits read as a big-endian numeral of a base,
\* modulo m (Horner's rule; no intermediate value exceeds base * m)
RECURSIVE NumeralMod(_, _, _)
NumeralMod(digits, base, m) ==
    IF digits = <<>> THEN 0
    ELSE (NumeralMod(SubSeq(digits, 1, Len(digits) - 1), base, m) * base
          + digits[Len(digits)]) % m

\* the value of a short sequence of digits read as a big-endian numeral
RECURSIVE Numeral(_, _)
Numeral(digits, base) ==
    IF digits = <<>> THEN 0
    ELSE Numeral(SubSeq(digits, 1, Len(digits) - 1), base) * base + digits[Len(digits)]

\* the digits of a text over the base43 alphabet
B43Digits(t) == [i \in 1..Len(t) |-> IndexOf(B43Chars, t[i]) - 1]

\* pairwise coprime moduli whose product exceeds 43^9 and 256^6: two numbers
\* below both powers are equal when they agree modulo each of them
CoprimeModuli == {223, 227, 229, 233, 239, 241, 251}

\* the number of '0' characters before the first other character of t
LeadingZeroChars(t) ==
    IF \A i \in 1..Len(t) : t[i] = "0" THEN Len(t)
    ELSE Least({ i \in 1..Len(t) : t[i] # "0" }) - 1

\* C23: for a text over the base43 alphabet base43Decode gives z zero bytes
\* followed by the bytes of V, most significant first, where V is the text
\* read as a big-endian base-43 numeral, its bytes are as few as possible but
\* at least one (the single byte 0 when V = 0), and z is the number of '0'
\* characters the text begins with.
C23_PaddedBigEndian ==
    (/\ answer.op = "base43Decode"
     /\ \A i \in 1..Len(given) : given[i] \in Range(B43Chars))
    => Let(LeadingZeroChars(given), LAMBDA z :
           /\ answer.out # None
           /\ Len(answer.out[1]) > z
           /\ SubSeq(answer.out[1], 1, z) = Zeros(z)
           /\ Let(SubSeq(answer.out[1], z + 1, Len(answer.out[1])), LAMBDA bytes :
                  /\ \A i \in 1..Len(bytes) : bytes[i] \in 0..255
                  /\ Len(bytes) = 1 \/ bytes[1] # 0
                  /\ Len(given) <= 9 /\ Len(bytes) <= 6
                  /\ \A m \in CoprimeModuli :
                         NumeralMod(bytes, 256, m) = NumeralMod(B43Digits(given), 43, m)
                  /\ Len(given) <= MaxB43Len
                     => Numeral(bytes, 256) = Numeral(B43Digits(given), 43)))

\* base43Decode has given the bytes 0, 7, 56 for the text "0::": one zero
\* byte for its leading '0' and the two bytes of 42 * 43 + 42 = 1848
C23_Witness ==
    /\ given = <<"0", ":", ":">>
    /\ answer = [op |-> "base43Decode", out |-> Some(<<0, 7, 56>>)]

\* what the add of the sub-decoder of a locked type answers to frame f in the
\* current state (the types whose sub-decoder has an add)
SubDecoderAdd(type, f) ==
    CASE type = PSBTSPECTER -> SpecterDecodePSBTQR_add(session.specter_qr, f)
      [] type = PSBTURLEGACY -> LegacyURDecodeQR_add(session.legacy_ur, f)
      [] type = PSBTBASE64 -> Base64DecodeQR_add(session.base64_qr, f)
      [] type = PSBTBASE43 -> Base43DecodeQR_add(session.base43_qr, f)
      [] type \in SeedTypes -> SeedQR_add(session.seedqr, session.wordlist, f, type)
      [] type = SETTINGS -> SettingsQR_add(session.settings_qr, f)
      [] type = BITCOINADDRESSQR -> BitcoinAddressQR_add(session.address_qr, f)
      [] type = SPECTERWALLETQR -> SpecterDecodeWalletQR_add(session.specter_wallet_qr, f)

\* every frame the session would dispatch is answered with what the add of
\* the sub-decoder answers (for the fountain decoder: COMPLETE when it is
\* complete after the frame, PART_COMPLETE otherwise)
StatusMirrored ==
    \A f \in Frames :
        Let(Call(f), LAMBDA o :
            o.rt # RAISE_TYPE_CHANGE =>
                   Let(o.self.qr_type, LAMBDA type :
                       /\ type \in DispatchedTypes \ {PSBTUR2}
                          => o.rt = SubDecoderAdd(type, f).rt
                       /\ type = PSBTUR2
                          => o.rt = IF URDecoder_is_complete(o.self.ur_decoder)
                                    THEN COMPLETE ELSE PART_COMPLETE
                       /\ type = INVALIDTYPE => o.rt = INVALID))

\* C24: addString answers what the add of the active sub-decoder answers, and
\* the completion flag is set in exactly the calls that answer COMPLETE: a
\* new session is not complete, and every call leaves isComplete() true
\* exactly when it was true before or the call answered COMPLETE, so
\* isComplete() is true if and only if some earlier call answered COMPLETE.
C24_CompleteIffAnswered ==
    /\ ~DecodeQR_isComplete(session)
    /\ []StatusMirrored
    /\ [][DecodeQR_isComplete(session')
          <=> (DecodeQR_isComplete(session) \/ last' = COMPLETE)]_vars

\* a Specter wallet session has just answered COMPLETE and is complete
C24_Witness ==
    /\ session.qr_type = SPECTERWALLETQR
    /\ last = COMPLETE
    /\ DecodeQR_isComplete(session)
    /\ session.specter_wallet_qr.collected_segments = MaxWalletTotal

\* a Specter wallet session holds every segment, has answered INVALID to the
\* last one and is not complete
C24_WitnessNotComplete ==
    /\ session.qr_type = SPECTERWALLETQR
    /\ last = INVALID
    /\ ~DecodeQR_isComplete(session)
    /\ session.specter_wallet_qr.collected_segments = MaxWalletTotal

\* the complete flag of the sub-decoder the locked type selects (for the
\* fountain decoder: its is_complete())
ActiveComplete(self) ==
    CASE self.qr_type = PSBTUR2 -> URDecoder_is_complete(self.ur_decoder)
      [] self.qr_type = PSBTSPECTER -> self.specter_qr.complete
      [] self.qr_type = PSBTURLEGACY -> self.legacy_ur.complete
      [] self.qr_type = PSBTBASE64 -> self.base64_qr.complete
      [] self.qr_type = PSBTBASE43 -> self.base43_qr.complete
      [] self.qr_type \in SeedTypes -> self.seedqr.complete
      [] self.qr_type = SETTINGS -> self.settings_qr.complete
      [] self.qr_type = BITCOINADDRESSQR -> self.address_qr.complete
      [] self.qr_type = SPECTERWALLETQR -> self.specter_wallet_qr.complete
      [] OTHER -> FALSE

\* C25: once isComplete() is true it stays true whatever is submitted next
\* (frames answered INVALID or PART_EXISTING and calls that raise included),
\* and whenever the session is complete the complete flag of its active
\* sub-decoder is true.
C25_CompleteStable ==
    /\ [](DecodeQR_isComplete(session) => ActiveComplete(session))
    /\ [][DecodeQR_isComplete(session) => DecodeQR_isComplete(session')]_vars

\* a complete Specter PSBT session has just raised on a frame with another
\* total and is still complete
C25_Witness ==
    /\ session.qr_type = PSBTSPECTER
    /\ last = RAISE_TOTAL_CHANGED
    /\ DecodeQR_isComplete(session)
    /\ session.specter_qr.complete

\* a complete seed session has just answered INVALID and is still complete
C25_WitnessInvalid ==
    /\ session.qr_type \in SeedTypes
    /\ last = INVALID
    /\ DecodeQR_isComplete(session)
    /\ session.seedqr.complete

\* C26 (refuted): a slot is only ever filled by a frame whose header index is
\* the slot's position (counted from 1) and then holds that frame's payload;
\* a frame whose header index is 0 or greater than the total fills no slot
\* and does not raise collected_segments.
C26_SlotByIndex ==
    \A type \in ReassemblerTypes :
        \A f \in Frames :
            (session.qr_type \in {NoType, type} /\ FrameType[f] = type)
            => Let(Reassembler(session, type), LAMBDA before :
               Let(Reassembler(Call(f).self, type), LAMBDA after :
               Let(ParsedOf(type)[f], LAMBDA parsed :
                   /\ \A k \in 1..Len(after.segments) :
                          (after.segments[k] # None
                           /\ (before.segments = <<>> \/ before.segments[k] = None))
                          => /\ parsed.cur = Some(k)
                             /\ after.segments[k] = Some(parsed.payload)
                   /\ (/\ parsed.cur # None
                       /\ parsed.total # None
                       /\ (parsed.cur[1] = 0 \/ parsed.cur[1] > parsed.total[1]))
                      => /\ Filled(after.segments) = Filled(before.segments)
                         /\ after.collected_segments = before.collected_segments)))

\* C27 (refuted): a call of a reassembler's add that raises (another total
\* than the one in force, an index outside 1..total, a total of 0, a legacy
\* UR frame without header) leaves total_segments, segments,
\* collected_segments and complete as they were, also when the frame is the
\* first of the session.
C27_RaiseChangesNothing ==
    \A type \in ReassemblerTypes :
        \A f \in Frames :
            (/\ session.qr_type \in {NoType, type}
             /\ FrameType[f] = type
             /\ Call(f).rt \in {RAISE_TOTAL_CHANGED, RAISE_INDEX_ERROR, RAISE_LEGACY_UR})
            => Reassembler(Call(f).self, type) = Reassembler(session, type)

\* the session has been given nothing, or holds frames of the split wallet
\* document and nothing else
OnlySplitFrames ==
    \/ session.qr_type = NoType
    \/ /\ session.qr_type \in ReassemblerTypes
       /\ accepted # {}
       /\ accepted \subseteq WalletSplitFrames
       /\ Reassembler(session, session.qr_type).collected_segments = Cardinality(accepted)

\* C28 (refuted): the frames p1ofN .. pNofN of a wallet document with a
\* "descriptor" key are submitted in any order to a new session: none of the
\* calls raises, the call that brings the last missing frame (and no other)
\* answers COMPLETE, and getWalletDescriptor then gives the descriptor of the
\* document; whatever the fragments are made of.
C28_WalletReassembled ==
    OnlySplitFrames =>
        \A f \in WalletSplitFrames :
            Let(Call(f), LAMBDA o :
                /\ o.rt \notin Raises
                /\ o.rt = COMPLETE <=> (f \notin accepted
                                        /\ accepted \cup {f} = WalletSplitFrames)
                /\ o.rt = COMPLETE
                   => SpecterDecodeWalletQR_getWalletDescriptor(o.self.specter_wallet_qr)
                      = Returned(Some(WalletSplit[2])))

\* C29 (refuted): whenever a session locked to Specter PSBT, legacy UR,
\* base64 or base43 is complete, getDataPSBT returns bytes (it neither raises
\* nor returns None) and getBase64PSBT returns a text without raising.
C29_PSBTAvailable ==
    (/\ DecodeQR_isComplete(session)
     /\ session.qr_type \in {PSBTSPECTER, PSBTURLEGACY, PSBTBASE64, PSBTBASE43})
    => /\ ~DecodeQR_getDataPSBT(session).raised
       /\ DecodeQR_getDataPSBT(session).value # None
       /\ ~DecodeQR_getBase64PSBT(session).raised
       /\ DecodeQR_getBase64PSBT(session).value # None

\* the sub-decoders of a session, by the name of their field
SubDecoders ==
    {"ur_decoder", "specter_qr", "legacy_ur", "base64_qr", "base43_qr", "address_qr",
     "specter_wallet_qr", "settings_qr", "seedqr"}

\* the sub-decoder a locked type selects ("none" for QRType.INVALID and for
\* a session without type)
ActiveSubDecoder(type) ==
    CASE type = PSBTUR2 -> "ur_decoder"
      [] type = PSBTSPECTER -> "specter_qr"
      [] type = PSBTURLEGACY -> "legacy_ur"
      [] type = PSBTBASE64 -> "base64_qr"
      [] type = PSBTBASE43 -> "base43_qr"
      [] type \in SeedTypes -> "seedqr"
      [] type = SETTINGS -> "settings_qr"
      [] type = BITCOINADDRESSQR -> "address_qr"
      [] type = SPECTERWALLETQR -> "specter_wallet_qr"
      [] OTHER -> "none"

\* C30: in every reachable state every sub-decoder but the one the locked
\* type selects is as __init__ left it (not complete, nothing collected, no
\* result), and a session without type is a new session; a call that
\* answers FALSE (addString(None)) leaves the whole session as it was, its
\* type included, and only a change of the sub-decoder selected by the type
\* after the call ever happens in a step.
C30_OneActiveSubDecoder ==
    /\ [](/\ \A d \in SubDecoders \ {ActiveSubDecoder(session.qr_type)} :
                 session[d] = DecodeQRInit[d]
          /\ session.qr_type = NoType => session = DecodeQRInit)
    /\ [][/\ last' = FALSE_STATUS => session' = session
          /\ \A d \in SubDecoders \ {ActiveSubDecoder(session'.qr_type)} :
                 session'[d] = session[d]]_vars

\* a settings session has answered COMPLETE; its settings decoder holds the
\* result and every other sub-decoder is as new
C30_Witness ==
    /\ session.qr_type = SETTINGS
    /\ last = COMPLETE
    /\ session.settings_qr # DecodeQRInit.settings_qr
    /\ session.settings_qr.complete
    /\ \A d \in SubDecoders \ {"settings_qr"} : session[d] = DecodeQRInit[d]

\* addString(None) has just answered FALSE on a session that holds a frame
C30_WitnessNone ==
    /\ last = FALSE_STATUS
    /\ session.qr_type = PSBTSPECTER
    /\ session.specter_qr.collected_segments = 1

====
